---- MODULE Spec2Model ----
(***************************************************************************)
(* A model of the virtual-node tree of colbyn/view-prototype               *)
(* (src/src/html.rs): the Html sum type, its Mailbox, the event            *)
(* dispatcher tick, the construction API, sync against the live surface,   *)
(* and the frame loop that drives them.                                    *)
(*                                                                         *)
(* A Mailbox is an Rc<RefCell<VecDeque<(String, JsValue)>>>: a queue that  *)
(* is shared by reference.  The model keeps every queue in a heap (a       *)
(* function from mailbox references to sequences) and a Node holds the     *)
(* reference.  A JsValue payload is a platform event object; every event   *)
(* delivered is a distinct object, modelled by its serial number.          *)
(*                                                                         *)
(* The live surface is a heap of elements by handle.  The frame loop       *)
(* (the Process) has no source file in src/: it follows spec.md 4.5.       *)
(***************************************************************************)
EXTENDS Integers, Sequences, FiniteSets, TLC

(* ------------------------------ bounds -------------------------------- *)
\* Html values (Node or Text) in a tree.
MaxNodes == 3
\* Mailbox insertions over one behaviour.
MaxEvents == 2
\* Consecutive calls of tick that are recorded as one run.
MaxRun == 3
\* Calls of add_event_handler on a tree already built.
MaxHandlers == 2
\* Draws of rand::random in one view call that repeat an id already on the
\* live surface.
MaxCollisions == 1
\* Html values, attributes, styles and handlers of a tree that is mutated
\* while mounted.
MaxWeight == 4

(* ------------------------------ inputs -------------------------------- *)
EventNames == {"click", "input"}
Tags == {"div"}
TextValues == {"a"}
\* Application functions JsValue -> Msg handed to add_event_handler.
TagFun(name) == [kind |-> "tag", name |-> name]
AppFuns == {TagFun("f"), TagFun("g")}
\* The handler sets a view gives its Nodes: event name -> function.
HandlerMenus ==
    {<<>>,
     <<<<"click", TagFun("f")>>>>,
     <<<<"click", TagFun("f")>>, <<"input", TagFun("g")>>>>}

(* --------------------------- Option<T> -------------------------------- *)
None == <<>>
Some(x) == <<x>>

VARIABLES
    tree,       \* the Html value the program holds
    mail,       \* heap of Mailbox queues: reference -> Seq(<<name, value>>)
    fault,      \* "none", or "panic" once a panic!()/expect() has fired
    log,        \* history: every Mailbox::insert so far, in order
    removed,    \* history: per mailbox, the entries taken out of it, in order
    latest,     \* history: the number of add_event_handler calls on the
                \* built tree, and per mailbox and event name the function
                \* of the most recent call
    last,       \* history: the last operation and what it returned
    run,        \* history: the current run of consecutive tick calls
    dom,        \* the live surface: element handle -> element
    model,      \* the Process's Model
    pc,         \* where the runtime loop stands
    clicks,     \* history: how many clicks of the scenario have happened
    frame,      \* history: what the current frame has done so far
    sheet       \* the Style Mount: its rules, in insertion order

loopVars == <<dom, model, pc, clicks, frame, sheet>>

vars == <<tree, mail, fault, log, removed, latest, last, run, loopVars>>

(* ----------------------------- Mailbox -------------------------------- *)
\* Mailbox::new: a fresh queue; its reference is the lowest one not in use.
Mailbox_new(h) == CHOOSE m \in 1..(Cardinality(DOMAIN h) + 1) : m \notin DOMAIN h

\* Mailbox::insert as push_front.
insert_front(h, m, event_name, value) ==
    [h EXCEPT ![m] = <<<<event_name, value>>>> \o @]

\* Mailbox::insert: push_back.
insert(h, m, event_name, value) ==
    [h EXCEPT ![m] = Append(@, <<event_name, value>>)]

\* Mailbox::remove: pop_front; None on an empty queue.
remove_back(h, m) ==
    IF h[m] = <<>> THEN [ret |-> None, heap |-> h]
    ELSE [ret |-> Some(h[m][Len(h[m])]),
          heap |-> [h EXCEPT ![m] = SubSeq(@, 1, Len(@) - 1)]]

remove(h, m) ==
    IF h[m] = <<>> THEN [ret |-> None, heap |-> h]
    ELSE [ret |-> Some(Head(h[m])), heap |-> [h EXCEPT ![m] = Tail(@)]]

(* ------------------------------ Handler ------------------------------- *)
\* The platform callback add_event_handler builds: a closure over the
\* node's mailbox and the event name.
\* Every call of add_event_handler wraps a new closure (html.rs 477): n is
\* the number of the closure among those made for (m, event_name).
Callback(m, event_name, n) ==
    [mailbox |-> m, event_name |-> event_name, serial |-> n]

Handler(fun, js_ref) == [fun |-> fun, js_ref |-> js_ref]

\* Handler::eval: the application function applied to the raw event.  A
\* "tag" function is any function of its argument: the message is the pair
\* of the function and the argument.  A "const" function ignores it.
eval(handler, arg) ==
    IF handler.fun.kind = "const" THEN handler.fun.msg
    ELSE <<handler.fun.name, arg>>

(* ------------------------------- Html --------------------------------- *)
Text(value) == [kind |-> "Text", value |-> value]

\* BTreeMap<String, Handler<Msg>> as a function on the keys present.
BTreeMap_new == [e \in {} |-> None]

\* format!("_{}", n)
FormatId(n) == "_" \o ToString(n)

\* Html::new_node, given the number rand::random::<u16>() returned and the
\* fresh mailbox Mailbox::new() returned.
new_node(tag, n, m) ==
    [kind |-> "Node", tag |-> tag, id |-> FormatId(n), attributes |-> <<>>,
     styling |-> <<>>, events |-> BTreeMap_new, mailbox |-> m,
     children |-> <<>>]

BTreeMap_insert(map, k, v) ==
    [x \in DOMAIN map \cup {k} |-> IF x = k THEN v ELSE map[x]]

\* lookup_handler falling back to the node's first handler on a miss.
lookup_handler_fallback(self, key) ==
    IF self.kind = "Node"
    THEN IF key \in DOMAIN self.events THEN Some(self.events[key])
         ELSE IF DOMAIN self.events = {} THEN None
         ELSE Some(self.events[CHOOSE k \in DOMAIN self.events : TRUE])
    ELSE None

\* lookup_handler answering with the handler that was registered when the
\* event at the front of the mailbox was queued.
lookup_handler_stale(self, key) ==
    IF self.kind = "Node"
    THEN LET fired == log[Head(mail[self.mailbox])[2]].under
         IN IF fired = None THEN None
            ELSE Some(Handler(fired[1], Callback(self.mailbox, key, 1)))
    ELSE None

\* Html::lookup_handler
lookup_handler(self, key) ==
    IF self.kind = "Node"
    THEN IF key \in DOMAIN self.events THEN Some(self.events[key]) ELSE None
    ELSE None

\* Html::add_child on a Node (on a Text it panics: see the actions).
add_child(self, child) == [self EXCEPT !.children = Append(@, child)]

\* add_event_handler that keeps the entry the map already has.
add_event_handler_keep(self, event_name, fun) ==
    IF event_name \in DOMAIN self.events THEN self
    ELSE [self EXCEPT !.events =
             BTreeMap_insert(@, event_name,
                             Handler(fun,
                                     Callback(self.mailbox, event_name, 1)))]

\* Html::add_event_handler on a Node.
add_event_handler(self, event_name, fun) ==
    [self EXCEPT !.events =
        BTreeMap_insert(@, event_name,
                        Handler(fun,
                                Callback(self.mailbox, event_name,
                                         IF event_name \in DOMAIN self.events
                                         THEN self.events[event_name]
                                                 .js_ref.serial + 1
                                         ELSE 1)))]

(* ----------------------------- tree paths ------------------------------ *)
RECURSIVE Paths(_)
Paths(t) ==
    IF t.kind = "Text" THEN {<<>>}
    ELSE {<<>>} \cup UNION {{<<i>> \o p : p \in Paths(t.children[i])} :
                            i \in 1..Len(t.children)}

RECURSIVE NodeAt(_, _)
NodeAt(t, p) == IF p = <<>> THEN t ELSE NodeAt(t.children[Head(p)], Tail(p))

RECURSIVE ReplaceAt(_, _, _)
ReplaceAt(t, p, new) ==
    IF p = <<>> THEN new
    ELSE [t EXCEPT !.children[Head(p)] = ReplaceAt(@, Tail(p), new)]

Size(t) == Cardinality(Paths(t))

NodePaths(t) == {p \in Paths(t) : NodeAt(t, p).kind = "Node"}

(* ------------------------------- tick ---------------------------------- *)
RECURSIVE tick(_, _)
RECURSIVE tick_children(_, _, _)

\* html.rs 302-304: for child in children { messages.append(child.tick()) }
tick_children(children, i, acc) ==
    IF i > Len(children) THEN acc
    ELSE LET r == tick(children[i], acc.heap)
         IN tick_children(children, i + 1,
                          [messages |-> acc.messages \o r.messages,
                           heap |-> r.heap])

\* tick with the mailbox cleared once its front entry is taken.
tick_clear(self, h) ==
    IF self.kind = "Text" THEN [messages |-> <<>>, heap |-> h]
    ELSE LET c == tick_children(self.children, 1,
                                [messages |-> <<>>, heap |-> h])
             r == remove(c.heap, self.mailbox)
             cleared == [r.heap EXCEPT ![self.mailbox] = <<>>]
         IN IF r.ret = None THEN [messages |-> c.messages, heap |-> cleared]
            ELSE LET handler == lookup_handler(self, r.ret[1][1])
                 IN [messages |->
                        IF handler = None THEN c.messages
                        ELSE Append(c.messages, eval(handler[1], r.ret[1][2])),
                     heap |-> cleared]

\* tick with the node's own mailbox drained before its children's.
tick_preorder(self, h) ==
    IF self.kind = "Text" THEN [messages |-> <<>>, heap |-> h]
    ELSE LET r == remove(h, self.mailbox)
             handler == IF r.ret = None THEN None
                        ELSE lookup_handler(self, r.ret[1][1])
             own == IF handler = None THEN <<>>
                    ELSE <<eval(handler[1], r.ret[1][2])>>
         IN tick_children(self.children, 1,
                          [messages |-> own, heap |-> r.heap])

\* tick that polls: on an empty mailbox it still evaluates the node's
\* first handler, on a null event.
tick_poll(self, h) ==
    IF self.kind = "Text" THEN [messages |-> <<>>, heap |-> h]
    ELSE LET c == tick_children(self.children, 1,
                                [messages |-> <<>>, heap |-> h])
             r == remove(c.heap, self.mailbox)
         IN IF r.ret = None
            THEN [messages |->
                     IF DOMAIN self.events = {} THEN c.messages
                     ELSE Append(c.messages,
                                 eval(self.events[CHOOSE k \in DOMAIN self.events : TRUE], 0)),
                  heap |-> r.heap]
            ELSE LET handler == lookup_handler(self, r.ret[1][1])
                 IN [messages |->
                        IF handler = None THEN c.messages
                        ELSE Append(c.messages, eval(handler[1], r.ret[1][2])),
                     heap |-> r.heap]

\* Html::tick: the children first, then at most one entry of the node's own
\* mailbox, interpreted by the handler the node holds now.
tick(self, h) ==
    IF self.kind = "Text" THEN [messages |-> <<>>, heap |-> h]
    ELSE LET c == tick_children(self.children, 1,
                                [messages |-> <<>>, heap |-> h])
             r == remove(c.heap, self.mailbox)
         IN IF r.ret = None THEN [messages |-> c.messages, heap |-> r.heap]
            ELSE LET name == r.ret[1][1]
                     value == r.ret[1][2]
                     handler == lookup_handler(self, name)
                 IN [messages |->
                        IF handler = None THEN c.messages
                        ELSE Append(c.messages, eval(handler[1], value)),
                     heap |-> r.heap]

(* ------------------------------ history -------------------------------- *)
\* The entries of queue pre that are no longer in queue post, in pre's order.
RECURSIVE Dropped(_, _)
Dropped(pre, post) ==
    IF pre = <<>> THEN <<>>
    ELSE IF \E j \in 1..Len(post) : post[j] = Head(pre)
         THEN Dropped(Tail(pre), post)
         ELSE <<Head(pre)>> \o Dropped(Tail(pre), post)

NoRun(h) == [start |-> h, outs |-> <<>>]

Extend(f, k, v) == [x \in DOMAIN f \cup {k} |-> IF x = k THEN v ELSE f[x]]

\* The function registered now at the node owning mailbox m for event e.
RECURSIVE RegisteredFun(_, _, _)
RegisteredFun(t, m, e) ==
    IF t.kind = "Text" THEN None
    ELSE IF t.mailbox = m
         THEN (IF e \in DOMAIN t.events THEN Some(t.events[e].fun) ELSE None)
         ELSE LET hits == {i \in 1..Len(t.children) :
                             RegisteredFun(t.children[i], m, e) # None}
              IN IF hits = {} THEN None
                 ELSE RegisteredFun(t.children[CHOOSE i \in hits : TRUE], m, e)

\* The functions registered now at the node owning mailbox m, by event name.
RegisteredFuns(t, m) ==
    LET names == {e \in EventNames : RegisteredFun(t, m, e) # None}
    IN [e \in names |-> RegisteredFun(t, m, e)[1]]

(* --------------------------- building trees ---------------------------- *)
\* The shapes of the trees with n Html values: a Node with its children, or
\* a Text.  The root of a tree given to tick is a Node or a Text.
RECURSIVE ShapesOf(_)
RECURSIVE ForestsOf(_)
ShapesOf(n) ==
    IF n = 0 THEN {}
    ELSE {[kind |-> "Node", children |-> f] : f \in ForestsOf(n - 1)}
         \cup (IF n = 1 THEN {[kind |-> "Text"]} ELSE {})

ForestsOf(n) ==
    IF n = 0 THEN {<<>>}
    ELSE UNION {{<<t>> \o f : t \in ShapesOf(k), f \in ForestsOf(n - k)} :
                k \in 1..n}

\* node.add_event_handler(name, fun) for every entry of the menu, in order.
RECURSIVE AddHandlers(_, _)
AddHandlers(node, menu) ==
    IF menu = <<>> THEN node
    ELSE AddHandlers(add_event_handler(node, Head(menu)[1], Head(menu)[2]),
                     Tail(menu))

\* What the view! macro does (view_macro.rs 260-273): new_node, the
\* arguments in order (handlers, then for each child: build it, add_child).
\* `next` is the next free mailbox reference; the id drawn for a node is
\* the number of its mailbox, so the ids of one tree are pairwise distinct.
RECURSIVE Build(_, _, _, _)
RECURSIVE BuildChildren(_, _, _, _, _)
Build(shape, menu, value, next) ==
    IF shape.kind = "Text" THEN [html |-> Text(value), next |-> next]
    ELSE BuildChildren(
            [html |-> AddHandlers(new_node("div", next, next), menu),
             next |-> next + 1],
            shape.children, 1, menu, value)

BuildChildren(acc, shapes, i, menu, value) ==
    IF i > Len(shapes) THEN acc
    ELSE LET c == Build(shapes[i], menu, value, acc.next)
         IN BuildChildren([html |-> add_child(acc.html, c.html),
                           next |-> c.next],
                          shapes, i + 1, menu, value)

Trees ==
    {Build(shape, menu, value, 1).html :
        shape \in UNION {ShapesOf(n) : n \in 1..MaxNodes},
        menu \in HandlerMenus, value \in TextValues}

RECURSIVE Mailboxes(_)
Mailboxes(t) ==
    IF t.kind = "Text" THEN {}
    ELSE {t.mailbox} \cup UNION {Mailboxes(t.children[i]) :
                                  i \in 1..Len(t.children)}

(* ------------------------- the dispatch program ------------------------ *)
\* A client of html.rs holding a tree: events arrive in the mailboxes of
\* its Nodes and the client calls tick.
InitTree(t) ==
    /\ tree = t
    /\ mail = [m \in Mailboxes(t) |-> <<>>]
    /\ fault = "none"
    /\ log = <<>>
    /\ removed = [m \in Mailboxes(t) |-> <<>>]
    /\ latest = [n |-> 0, fun |-> [m \in Mailboxes(t) |-> RegisteredFuns(t, m)]]
    /\ last = [op |-> "new"]
    /\ run = NoRun(mail)
    /\ dom = <<>>
    /\ model = 0
    /\ pc = "client"
    /\ clicks = 0
    /\ sheet = <<>>
    /\ frame = <<>>

Init == \E t \in Trees : InitTree(t)

\* mailbox.insert(event_name, value) on the mailbox of the Node at path p:
\* what the platform callback of html.rs 481-483 does when it is invoked,
\* and what a direct call of the public Mailbox::insert does.
Insert(p, event_name) ==
    /\ fault = "none"
    /\ Len(log) < MaxEvents
    /\ NodeAt(tree, p).kind = "Node"
    /\ LET m == NodeAt(tree, p).mailbox
           value == Len(log) + 1
       IN /\ mail' = insert(mail, m, event_name, value)
          /\ log' = Append(log, [mailbox |-> m, name |-> event_name,
                                 value |-> value,
                                 under |-> RegisteredFun(tree, m, event_name)])
          /\ last' = [op |-> "insert"]
          /\ run' = NoRun(mail')
          /\ UNCHANGED <<tree, fault, removed, latest, loopVars>>

\* A tick whose handlers are one-shot: the root forgets its handlers once
\* it has been ticked.
Tick_once ==
    /\ fault = "none"
    /\ Len(run.outs) < MaxRun
    /\ LET r == tick(tree, mail)
       IN /\ mail' = r.heap
          /\ removed' = [m \in DOMAIN removed |->
                            removed[m] \o Dropped(mail[m], r.heap[m])]
          /\ last' = [op |-> "tick", pre |-> mail, out |-> r.messages]
          /\ run' = [run EXCEPT !.outs = Append(@, r.messages)]
          /\ tree' = IF tree.kind = "Node" THEN [tree EXCEPT !.events = <<>>]
                     ELSE tree
          /\ UNCHANGED <<fault, log, latest, loopVars>>

\* tree.tick()
Tick ==
    /\ fault = "none"
    /\ Len(run.outs) < MaxRun
    /\ LET r == tick(tree, mail)
       IN /\ mail' = r.heap
          /\ removed' = [m \in DOMAIN removed |->
                            removed[m] \o Dropped(mail[m], r.heap[m])]
          /\ last' = [op |-> "tick", pre |-> mail, out |-> r.messages]
          /\ run' = [run EXCEPT !.outs = Append(@, r.messages)]
          /\ UNCHANGED <<tree, fault, log, latest, loopVars>>

Next ==
    \/ \E p \in Paths(tree), e \in EventNames : Insert(p, e)
    \/ Tick

Spec == Init /\ [][Next]_vars

(* ------------------------- the mailbox program ------------------------- *)
\* A client of Mailbox: it inserts into and removes from the mailboxes of a
\* tree's Nodes directly.

\* mailbox.remove() on the mailbox of the Node at path p.
Remove(p) ==
    /\ fault = "none"
    /\ NodeAt(tree, p).kind = "Node"
    /\ LET m == NodeAt(tree, p).mailbox
           r == remove(mail, m)
       IN /\ mail' = r.heap
          /\ removed' = [removed EXCEPT ![m] = @ \o r.ret]
          /\ last' = [op |-> "remove", mailbox |-> m, pre |-> mail[m],
                      ret |-> r.ret]
          /\ run' = NoRun(mail')
          /\ UNCHANGED <<tree, fault, log, latest, loopVars>>

NextMailbox ==
    \/ \E p \in Paths(tree), e \in EventNames : Insert(p, e)
    \/ \E p \in Paths(tree) : Remove(p)

SpecMailbox == Init /\ [][NextMailbox]_vars

(* ------------------------- the handler program ------------------------- *)
\* A client that registers and replaces handlers on a built tree while
\* events arrive, and calls tick.
Panic(op, p) ==
    /\ fault' = "panic"
    /\ last' = [op |-> op, path |-> p]
    /\ UNCHANGED <<tree, mail, log, removed, latest, run, loopVars>>

\* node.add_event_handler(event_name, fun) on the value at path p; on a
\* Text, get_mailbox().expect("missing mailbox") panics.
AddEventHandler(p, event_name, fun) ==
    /\ fault = "none"
    /\ latest.n < MaxHandlers
    /\ LET self == NodeAt(tree, p)
       IN IF self.kind = "Text" THEN Panic("add_event_handler", p)
          ELSE /\ tree' = ReplaceAt(tree, p,
                                    add_event_handler(self, event_name, fun))
               /\ latest' = [n |-> latest.n + 1,
                             fun |-> [latest.fun EXCEPT ![self.mailbox] =
                                         Extend(@, event_name, fun)]]
               /\ last' = [op |-> "add_event_handler"]
               /\ run' = NoRun(mail)
               /\ UNCHANGED <<mail, fault, log, removed, loopVars>>

HandlerTrees ==
    {Build(shape, <<>>, value, 1).html :
        shape \in ShapesOf(1) \cup ShapesOf(2), value \in TextValues}

InitHandlers == \E t \in HandlerTrees : InitTree(t)

NextHandlers ==
    \/ \E p \in Paths(tree), e \in EventNames, fun \in AppFuns :
          AddEventHandler(p, e, fun)
    \/ \E p \in Paths(tree), e \in EventNames : Insert(p, e)
    \/ Tick

SpecHandlers == InitHandlers /\ [][NextHandlers]_vars

(* --------------------------- the live surface -------------------------- *)
\* The document as the platform holds it: a heap of elements by handle
\* (web_sys::Element is a reference to one).  A child is a text node or an
\* element handle.  Handle 0 is the view mount, the element the Process
\* keeps as the root of the live surface.
TextNode(data) == [kind |-> "text", data |-> data]

ElementRef(h) == [kind |-> "el", ref |-> h]

Element(tag, id) ==
    [tag |-> tag, id |-> id, listeners |-> <<>>, children |-> <<>>]

ViewMount == 0

NewHandle(d) ==
    CHOOSE n \in 0..Cardinality(DOMAIN d) :
        n \notin DOMAIN d /\ \A k \in 0..(n - 1) : k \in DOMAIN d

\* Markup text next to markup text parses into one text node; empty text
\* into none.
AppendText(items, s) ==
    IF s = "" THEN items
    ELSE IF items # <<>> /\ items[Len(items)].kind = "text"
         THEN [items EXCEPT ![Len(items)].data = @ \o s]
         ELSE Append(items, TextNode(s))

\* What the markup of Html::render (html.rs 426-456) is on the surface once
\* the platform has parsed it: <tag id=ID ...>children</tag> is an element
\* with that id, a Text is its value.
RECURSIVE MountNode(_, _)
RECURSIVE MountChildren(_, _, _, _)
MountNode(d, html) ==
    LET h == NewHandle(d)
        r == MountChildren(Extend(d, h, Element(html.tag, html.id)),
                           html.children, 1, <<>>)
    IN [dom |-> [r.dom EXCEPT ![h].children = r.items], ref |-> h]

MountChildren(d, children, i, items) ==
    IF i > Len(children) THEN [dom |-> d, items |-> items]
    ELSE IF children[i].kind = "Text"
         THEN MountChildren(d, children, i + 1,
                            AppendText(items, children[i].value))
         ELSE LET r == MountNode(d, children[i])
              IN MountChildren(r.dom, children, i + 1,
                               Append(items, ElementRef(r.ref)))

\* view_mount.set_inner_html(markup of html)
set_inner_html(html) ==
    LET r == MountChildren(Extend(<<>>, ViewMount, Element("div", "")),
                           <<html>>, 1, <<>>)
    IN [r.dom EXCEPT ![ViewMount].children = r.items]

\* The elements of the subtree at h, in document order.
RECURSIVE DocOrder(_, _)
RECURSIVE DocOrderItems(_, _, _)
DocOrder(d, h) == <<h>> \o DocOrderItems(d, d[h].children, 1)

DocOrderItems(d, items, i) ==
    IF i > Len(items) THEN <<>>
    ELSE (IF items[i].kind = "el" THEN DocOrder(d, items[i].ref) ELSE <<>>)
         \o DocOrderItems(d, items, i + 1)

Attached(d) == LET o == DocOrder(d, ViewMount) IN {o[i] : i \in 1..Len(o)}

\* document.get_element_by_id: the first element in document order.
get_element_by_id(d, id) ==
    LET o == DocOrder(d, ViewMount)
        hits == {i \in 1..Len(o) : d[o[i]].id = id}
    IN IF hits = {} THEN None
       ELSE Some(o[CHOOSE i \in hits : \A j \in hits : i <= j])

\* element.set_text_content(Some(s)): the children are replaced by one text
\* node; the elements that were children are no longer in the document.
set_text_content(d, h, s) ==
    [d EXCEPT ![h].children = IF s = "" THEN <<>> ELSE <<TextNode(s)>>]

\* element.textContent
RECURSIVE TextContent(_, _)
RECURSIVE TextContentItems(_, _, _)
TextContent(d, h) == TextContentItems(d, d[h].children, 1)

TextContentItems(d, items, i) ==
    IF i > Len(items) THEN ""
    ELSE (IF items[i].kind = "text" THEN items[i].data
          ELSE TextContent(d, items[i].ref))
         \o TextContentItems(d, items, i + 1)

\* element.add_event_listener_with_callback: a listener already registered
\* (same event name, same callback) is not registered again.
add_event_listener(d, h, name, js_ref) ==
    IF \E j \in 1..Len(d[h].listeners) : d[h].listeners[j] = <<name, js_ref>>
    THEN d
    ELSE [d EXCEPT ![h].listeners = Append(@, <<name, js_ref>>)]

\* The element and its ancestors, innermost first: the path an event takes.
RECURSIVE EventPath(_, _)
EventPath(d, h) ==
    LET parents == {p \in DOMAIN d :
                       \E j \in 1..Len(d[p].children) :
                           d[p].children[j] = ElementRef(h)}
    IN IF parents = {} THEN <<h>>
       ELSE <<h>> \o EventPath(d, CHOOSE p \in parents : TRUE)

\* The platform delivers an event to the listeners registered for it on the
\* target and on its ancestors; each is a closure of html.rs 481-483.
RECURSIVE InvokeListeners(_, _, _, _)
InvokeListeners(h, listeners, name, value) ==
    IF listeners = <<>> THEN h
    ELSE InvokeListeners(
            IF Head(listeners)[1] = name
            THEN insert(h, Head(listeners)[2].mailbox,
                        Head(listeners)[2].event_name, value)
            ELSE h,
            Tail(listeners), name, value)

RECURSIVE DispatchEvent(_, _, _, _, _)
DispatchEvent(h, d, path, name, value) ==
    IF path = <<>> THEN h
    ELSE DispatchEvent(InvokeListeners(h, d[Head(path)].listeners, name, value),
                       d, Tail(path), name, value)

(* ------------------------------ rendering ------------------------------ *)
\* str::replace(from, to) for a one-character pattern.
RECURSIVE replace(_, _, _)
replace(s, from, to) ==
    IF Len(s) = 0 THEN s
    ELSE (IF Head(s) = from THEN to ELSE Head(s))
            \o replace(Tail(s), from, to)

\* [String]::join(sep), from item i on.
RECURSIVE join(_, _, _)
join(items, sep, i) ==
    IF i > Len(items) THEN ""
    ELSE IF i = Len(items) THEN items[i]
    ELSE items[i] \o sep \o join(items, sep, i + 1)

\* Style::Style{property, value} and Style::PseudoClass(name, body).
Declaration(property, value) ==
    [kind |-> "Style", property |-> property, value |-> value]

PseudoClass(name, body) ==
    [kind |-> "PseudoClass", name |-> name, body |-> body]

\* render_decl that renders a PseudoClass as a declaration of its name.
render_decl_any(self) ==
    IF self.kind = "Style"
    THEN Some(replace(self.property, "_", "-") \o ": " \o self.value \o ";")
    ELSE Some(self.name \o ": ;")

\* Style::render_decl
render_decl(self) ==
    IF self.kind = "Style"
    THEN Some(replace(self.property, "_", "-") \o ": " \o self.value \o ";")
    ELSE None

\* html.rs 78-84: the loop that collects the Some(decl) of each style.
RECURSIVE Inner(_, _, _)
Inner(styles, i, inner) ==
    IF i > Len(styles) THEN inner
    ELSE Inner(styles, i + 1,
               IF render_decl(styles[i]) # None
               THEN Append(inner, render_decl(styles[i])[1])
               ELSE inner)

\* Style::render_decls
render_decls(selector, styles) ==
    selector \o " {" \o join(Inner(styles, 1, <<>>), " ", 1) \o "}"

\* Style::render_pseudo_selector
render_pseudo_selector(self, node_id) ==
    IF self.kind = "Style" THEN None
    ELSE Some(render_decls("#" \o node_id \o ":" \o self.name, self.body))

\* Attribute::Pair{key, value} and Attribute::Toggle{key, value: bool}.
Pair(key, value) == [kind |-> "Pair", key |-> key, value |-> value]

Toggle(key, value) == [kind |-> "Toggle", key |-> key, value |-> value]

\* Attribute::is_pair
is_pair(atr) == atr.kind = "Pair"

\* html.rs 212-221: the text of one attribute.
RenderAttribute(atr) ==
    IF is_pair(atr) THEN atr.key \o "=\"" \o atr.value \o "\"" ELSE atr.key

\* html.rs 208-222: filter, map, collect.
RECURSIVE Collect(_, _)
Collect(attributes, i) ==
    IF i > Len(attributes) THEN <<>>
    ELSE (IF attributes[i].key # "id"
          THEN <<RenderAttribute(attributes[i])>> ELSE <<>>)
            \o Collect(attributes, i + 1)

\* render_attributes without the filter on the key "id".
render_attributes_all(self) ==
    IF self.kind = "Node"
    THEN Some(join([i \in 1..Len(self.attributes) |->
                       RenderAttribute(self.attributes[i])], " ", 1))
    ELSE None

\* Html::render_attributes
render_attributes(self) ==
    IF self.kind = "Node"
    THEN Some(join(Collect(self.attributes, 1), " ", 1))
    ELSE None

\* StyleMount::insert: the rule goes to the end of the rule list.
StyleMount_insert(rules, rule) == Append(rules, rule)

\* Whether text s contains text sub.
contains(s, sub) ==
    \E i \in 1..(Len(s) - Len(sub) + 1) :
        SubSeq(s, i, i + Len(sub) - 1) = sub

\* The selector text of a rule: what stands before its " {".
SelectorText(rule) ==
    SubSeq(rule, 1,
           (CHOOSE i \in 1..(Len(rule) - 1) :
               /\ SubSeq(rule, i, i + 1) = " {"
               /\ \A j \in 1..(i - 1) : SubSeq(rule, j, j + 1) # " {") - 1)

\* StyleMount::delete: every rule whose selector text contains the id goes.
StyleMount_delete(rules, node_id) ==
    LET Keep(rule) == ~contains(SelectorText(rule), node_id)
    IN SelectSeq(rules, Keep)

\* html.rs 235-247: pseudo_selectors, from style i on.
RECURSIVE pseudo_selectors(_, _, _, _)
pseudo_selectors(style_mount, id, styles, i) ==
    IF i > Len(styles) THEN style_mount
    ELSE pseudo_selectors(
            IF render_pseudo_selector(styles[i], id) # None
            THEN StyleMount_insert(style_mount,
                                   render_pseudo_selector(styles[i], id)[1])
            ELSE style_mount,
            id, styles, i + 1)

\* html.rs 230-234: default_selector.
default_selector(style_mount, id, styles) ==
    StyleMount_insert(style_mount, render_decls("#" \o id, styles))

\* render_css that inserts the base rule only.
render_css_base(self, style_mount) ==
    IF self.kind = "Node"
    THEN default_selector(style_mount, self.id, self.styling)
    ELSE style_mount

\* Html::render_css: the Style Mount after the call.
render_css(self, style_mount) ==
    IF self.kind = "Node"
    THEN pseudo_selectors(
            default_selector(style_mount, self.id, self.styling),
            self.id, self.styling, 1)
    ELSE style_mount

\* Html::render: the markup, and the Style Mount after the call.
RECURSIVE render(_, _)
RECURSIVE render_children(_, _, _)
render(self, style_mount) ==
    IF self.kind = "Node"
    THEN LET attributes == render_attributes(self)
             c == render_children(
                     self.children, 1,
                     [markup |-> "",
                      style_mount |-> render_css(self, style_mount)])
         IN [markup |->
                IF attributes = None
                THEN "<" \o self.tag \o " id=" \o self.id \o ">"
                        \o c.markup \o "</" \o self.tag \o ">"
                ELSE "<" \o self.tag \o " id=" \o self.id \o " "
                        \o attributes[1] \o ">"
                        \o c.markup \o "</" \o self.tag \o ">",
             style_mount |-> c.style_mount]
    ELSE [markup |-> self.value, style_mount |-> style_mount]

\* html.rs 431-435: children.iter().map(|c| c.render(style_mount)).join("")
render_children(children, i, acc) ==
    IF i > Len(children) THEN acc
    ELSE LET r == render(children[i], acc.style_mount)
         IN render_children(children, i + 1,
                            [markup |-> acc.markup \o r.markup,
                             style_mount |-> r.style_mount])

(* ------------------------ html.rs on the surface ----------------------- *)
\* Html::get_live
get_live(self, d) ==
    IF self.kind = "Node" THEN get_element_by_id(d, self.id) ELSE None

\* The keys of a BTreeMap<String, _> come out in string order.
KeyOrder == <<"click", "input">>

\* html.rs 262-267: for (event_name, event_handler) in events, on the
\* element h; acc is the surface and the registration calls made so far.
RECURSIVE AddListeners(_, _, _, _)
AddListeners(acc, h, events, i) ==
    IF i > Len(KeyOrder) THEN acc
    ELSE AddListeners(
            IF KeyOrder[i] \in DOMAIN events
            THEN [dom |-> add_event_listener(acc.dom, h, KeyOrder[i],
                                             events[KeyOrder[i]].js_ref),
                  calls |-> Append(acc.calls,
                                   <<h, KeyOrder[i],
                                     events[KeyOrder[i]].js_ref>>)]
            ELSE acc,
            h, events, i + 1)

RECURSIVE attach_event_listeners(_, _)
RECURSIVE attach_children(_, _, _)

\* attach_event_listeners that registers a Node's own listeners before
\* those of its children.
attach_preorder(self, d) ==
    LET live == get_live(self, d)
    IN IF live = None THEN [dom |-> d, calls |-> <<>>]
       ELSE attach_children(self.children, 1,
                            AddListeners([dom |-> d, calls |-> <<>>],
                                         live[1], self.events, 1))

\* Html::attach_event_listeners: nothing is done for a value without a live
\* element, its children included.  The result is the surface and the
\* add_event_listener_with_callback calls made, in order.
attach_event_listeners(self, d) ==
    LET live == get_live(self, d)
    IN IF live = None THEN [dom |-> d, calls |-> <<>>]
       ELSE AddListeners(attach_children(self.children, 1,
                                         [dom |-> d, calls |-> <<>>]),
                         live[1], self.events, 1)

attach_children(children, i, acc) ==
    IF i > Len(children) THEN acc
    ELSE LET r == attach_event_listeners(children[i], acc.dom)
         IN attach_children(children, i + 1,
                            [dom |-> r.dom, calls |-> acc.calls \o r.calls])

\* target.remove_event_listener_with_callback: the listener with this event
\* name and this callback is taken off; without one, nothing happens.
remove_event_listener(d, h, name, js_ref) ==
    [d EXCEPT ![h].listeners =
        SelectSeq(@, LAMBDA l : l # <<name, js_ref>>)]

\* html.rs 284-289: for (name, handler) in events, on the element h.
RECURSIVE RemoveListeners(_, _, _, _)
RemoveListeners(acc, h, events, i) ==
    IF i > Len(KeyOrder) THEN acc
    ELSE RemoveListeners(
            IF KeyOrder[i] \in DOMAIN events
            THEN [acc EXCEPT
                    !.dom = remove_event_listener(@, h, KeyOrder[i],
                                                  events[KeyOrder[i]].js_ref),
                    !.calls = Append(@, <<h, KeyOrder[i],
                                          events[KeyOrder[i]].js_ref>>)]
            ELSE acc,
            h, events, i + 1)

RECURSIVE delete_event_listeners(_, _)
RECURSIVE delete_children(_, _, _)

\* delete_event_listeners that looks for the live element only when the
\* Node has a listener to remove.
delete_lenient(self, d) ==
    IF self.kind = "Text" THEN [dom |-> d, calls |-> <<>>, panic |-> FALSE]
    ELSE LET c == delete_children(self.children, 1,
                                  [dom |-> d, calls |-> <<>>, panic |-> FALSE])
             live == get_live(self, c.dom)
         IN IF c.panic THEN c
            ELSE IF live = None
                 THEN [c EXCEPT !.panic = DOMAIN self.events # {}]
                 ELSE RemoveListeners(c, live[1], self.events, 1)

\* delete_event_listeners that leaves the listeners of the children.
delete_shallow(self, d) ==
    IF self.kind = "Text" THEN [dom |-> d, calls |-> <<>>, panic |-> FALSE]
    ELSE LET c == [dom |-> d, calls |-> <<>>, panic |-> FALSE]
             live == get_live(self, c.dom)
         IN IF live = None THEN [c EXCEPT !.panic = TRUE]
            ELSE RemoveListeners(c, live[1], self.events, 1)

\* Html::delete_event_listeners.  The result is the surface, the
\* remove_event_listener_with_callback calls made, in order, and whether
\* expect("failed to get live dom ref") panicked.
delete_event_listeners(self, d) ==
    IF self.kind = "Text" THEN [dom |-> d, calls |-> <<>>, panic |-> FALSE]
    ELSE LET c == delete_children(self.children, 1,
                                  [dom |-> d, calls |-> <<>>, panic |-> FALSE])
             live == get_live(self, c.dom)
         IN IF c.panic THEN c
            ELSE IF live = None THEN [c EXCEPT !.panic = TRUE]
                 ELSE RemoveListeners(c, live[1], self.events, 1)

delete_children(children, i, acc) ==
    IF i > Len(children) \/ acc.panic THEN acc
    ELSE LET r == delete_event_listeners(children[i], acc.dom)
         IN delete_children(children, i + 1,
                            [dom |-> r.dom, calls |-> acc.calls \o r.calls,
                             panic |-> r.panic])

\* Html::sync.  The result is the old tree as sync leaves it, the surface,
\* the set_text_content calls made, in order, and whether
\* expect("failed to get live dom ref") panicked.
RECURSIVE sync(_, _, _, _)
RECURSIVE sync_children(_, _, _, _, _, _)

\* sync that patches the live text and leaves the stored value as it was.
sync_forget(self, new, parent_ref, d) ==
    LET live == get_live(self, d)
    IN IF self.kind = "Node" /\ new.kind = "Node"
       THEN IF live = None
            THEN [self |-> self, dom |-> d, panic |-> TRUE, writes |-> <<>>]
            ELSE IF Len(self.children) = Len(new.children)
                 THEN LET r == sync_children(self.children, new.children, 1,
                                             live[1], d, <<>>)
                      IN [self |-> [self EXCEPT !.children = r.children],
                          dom |-> r.dom, panic |-> r.panic,
                          writes |-> r.writes]
                 ELSE [self |-> self, dom |-> d, panic |-> FALSE,
                       writes |-> <<>>]
       ELSE IF self.kind = "Text" /\ new.kind = "Text"
               /\ self.value # new.value
            THEN [self |-> self,
                  dom |-> set_text_content(d, parent_ref, new.value),
                  panic |-> FALSE,
                  writes |-> <<<<parent_ref, new.value>>>>]
            ELSE [self |-> self, dom |-> d, panic |-> FALSE, writes |-> <<>>]

\* sync that gives a synced Node the id of its new counterpart.
sync_adopt(self, new, parent_ref, d) ==
    LET live == get_live(self, d)
    IN IF self.kind = "Node" /\ new.kind = "Node"
       THEN IF live = None
            THEN [self |-> self, dom |-> d, panic |-> TRUE, writes |-> <<>>]
            ELSE IF Len(self.children) = Len(new.children)
                 THEN LET r == sync_children(self.children, new.children, 1,
                                             live[1], d, <<>>)
                      IN [self |-> [self EXCEPT !.children = r.children,
                                                !.id = new.id],
                          dom |-> r.dom, panic |-> r.panic,
                          writes |-> r.writes]
                 ELSE [self |-> self, dom |-> d, panic |-> FALSE,
                       writes |-> <<>>]
       ELSE IF self.kind = "Text" /\ new.kind = "Text"
               /\ self.value # new.value
            THEN [self |-> [self EXCEPT !.value = new.value],
                  dom |-> set_text_content(d, parent_ref, new.value),
                  panic |-> FALSE,
                  writes |-> <<<<parent_ref, new.value>>>>]
            ELSE [self |-> self, dom |-> d, panic |-> FALSE, writes |-> <<>>]

\* sync that writes the text of a Text leaf whether or not it changed.
sync_always(self, new, parent_ref, d) ==
    LET live == get_live(self, d)
    IN IF self.kind = "Node" /\ new.kind = "Node"
       THEN IF live = None
            THEN [self |-> self, dom |-> d, panic |-> TRUE, writes |-> <<>>]
            ELSE IF Len(self.children) = Len(new.children)
                 THEN LET r == sync_children(self.children, new.children, 1,
                                             live[1], d, <<>>)
                      IN [self |-> [self EXCEPT !.children = r.children],
                          dom |-> r.dom, panic |-> r.panic,
                          writes |-> r.writes]
                 ELSE [self |-> self, dom |-> d, panic |-> FALSE,
                       writes |-> <<>>]
       ELSE IF self.kind = "Text" /\ new.kind = "Text"
            THEN [self |-> [self EXCEPT !.value = new.value],
                  dom |-> set_text_content(d, parent_ref, new.value),
                  panic |-> FALSE,
                  writes |-> <<<<parent_ref, new.value>>>>]
            ELSE [self |-> self, dom |-> d, panic |-> FALSE, writes |-> <<>>]

\* sync that pairs the children up to the shorter of the two lists.
sync_zip(self, new, parent_ref, d) ==
    LET live == get_live(self, d)
        n == IF Len(self.children) <= Len(new.children)
             THEN Len(self.children) ELSE Len(new.children)
    IN IF self.kind = "Node" /\ new.kind = "Node"
       THEN IF live = None
            THEN [self |-> self, dom |-> d, panic |-> TRUE, writes |-> <<>>]
            ELSE LET r == sync_children(SubSeq(self.children, 1, n),
                                        SubSeq(new.children, 1, n), 1,
                                        live[1], d, <<>>)
                 IN [self |-> [self EXCEPT !.children =
                                  r.children \o SubSeq(@, n + 1, Len(@))],
                     dom |-> r.dom, panic |-> r.panic, writes |-> r.writes]
       ELSE IF self.kind = "Text" /\ new.kind = "Text"
            THEN IF self.value # new.value
                 THEN [self |-> [self EXCEPT !.value = new.value],
                       dom |-> set_text_content(d, parent_ref, new.value),
                       panic |-> FALSE,
                       writes |-> <<<<parent_ref, new.value>>>>]
                 ELSE [self |-> self, dom |-> d, panic |-> FALSE,
                       writes |-> <<>>]
            ELSE [self |-> self, dom |-> d, panic |-> FALSE, writes |-> <<>>]

\* sync that takes a shape mismatch for a missing live element.
sync_strict(self, new, parent_ref, d) ==
    LET live == get_live(self, d)
    IN IF self.kind = "Node" /\ new.kind = "Node"
       THEN IF live = None
            THEN [self |-> self, dom |-> d, panic |-> TRUE, writes |-> <<>>]
            ELSE IF Len(self.children) = Len(new.children)
                 THEN LET r == sync_children(self.children, new.children, 1,
                                             live[1], d, <<>>)
                      IN [self |-> [self EXCEPT !.children = r.children],
                          dom |-> r.dom, panic |-> r.panic,
                          writes |-> r.writes]
                 ELSE [self |-> self, dom |-> d, panic |-> FALSE,
                       writes |-> <<>>]
       ELSE IF self.kind = "Text" /\ new.kind = "Text"
            THEN IF self.value # new.value
                 THEN [self |-> [self EXCEPT !.value = new.value],
                       dom |-> set_text_content(d, parent_ref, new.value),
                       panic |-> FALSE,
                       writes |-> <<<<parent_ref, new.value>>>>]
                 ELSE [self |-> self, dom |-> d, panic |-> FALSE,
                       writes |-> <<>>]
            ELSE [self |-> self, dom |-> d, panic |-> TRUE, writes |-> <<>>]

\* sync that reconciles the structure: where the child counts differ, old
\* takes over the children of new.
sync_graft(self, new, parent_ref, d) ==
    LET live == get_live(self, d)
    IN IF self.kind = "Node" /\ new.kind = "Node"
       THEN IF live = None
            THEN [self |-> self, dom |-> d, panic |-> TRUE, writes |-> <<>>]
            ELSE IF Len(self.children) = Len(new.children)
                 THEN LET r == sync_children(self.children, new.children, 1,
                                             live[1], d, <<>>)
                      IN [self |-> [self EXCEPT !.children = r.children],
                          dom |-> r.dom, panic |-> r.panic,
                          writes |-> r.writes]
                 ELSE [self |-> [self EXCEPT !.children = new.children],
                       dom |-> d, panic |-> FALSE, writes |-> <<>>]
       ELSE IF self.kind = "Text" /\ new.kind = "Text"
            THEN IF self.value # new.value
                 THEN [self |-> [self EXCEPT !.value = new.value],
                       dom |-> set_text_content(d, parent_ref, new.value),
                       panic |-> FALSE,
                       writes |-> <<<<parent_ref, new.value>>>>]
                 ELSE [self |-> self, dom |-> d, panic |-> FALSE,
                       writes |-> <<>>]
            ELSE [self |-> self, dom |-> d, panic |-> FALSE, writes |-> <<>>]

sync(self, new, parent_ref, d) ==
    LET live == get_live(self, d)
    IN IF self.kind = "Node" /\ new.kind = "Node"
       THEN IF live = None
            THEN [self |-> self, dom |-> d, panic |-> TRUE, writes |-> <<>>]
            ELSE IF Len(self.children) = Len(new.children)
                 THEN LET r == sync_children(self.children, new.children, 1,
                                             live[1], d, <<>>)
                      IN [self |-> [self EXCEPT !.children = r.children],
                          dom |-> r.dom, panic |-> r.panic,
                          writes |-> r.writes]
                 ELSE [self |-> self, dom |-> d, panic |-> FALSE,
                       writes |-> <<>>]
       ELSE IF self.kind = "Text" /\ new.kind = "Text"
            THEN IF self.value # new.value
                 THEN [self |-> [self EXCEPT !.value = new.value],
                       dom |-> set_text_content(d, parent_ref, new.value),
                       panic |-> FALSE,
                       writes |-> <<<<parent_ref, new.value>>>>]
                 ELSE [self |-> self, dom |-> d, panic |-> FALSE,
                       writes |-> <<>>]
            ELSE [self |-> self, dom |-> d, panic |-> FALSE, writes |-> <<>>]

\* html.rs 335-337: for (c1, c2) in cs1.zip(cs2) { c1.sync(c2, &live) }
sync_children(cs1, cs2, i, live, d, writes) ==
    IF i > Len(cs1)
    THEN [children |-> cs1, dom |-> d, panic |-> FALSE, writes |-> writes]
    ELSE LET r == sync(cs1[i], cs2[i], live, d)
         IN IF r.panic
            THEN [children |-> [cs1 EXCEPT ![i] = r.self], dom |-> r.dom,
                  panic |-> TRUE, writes |-> writes \o r.writes]
            ELSE sync_children([cs1 EXCEPT ![i] = r.self], cs2, i + 1, live,
                               r.dom, writes \o r.writes)

(* ------------------------- the counter Component ----------------------- *)
\* spec.md 8: a counter with Msg in {Increment, Decrement}.
ConstFun(msg) == [kind |-> "const", msg |-> msg]

CounterInit == 0

update(value, msg) ==
    IF msg = "Increment" THEN value + 1 ELSE value - 1

\* A Node built by new_node with a fresh mailbox, in heap h.
Fresh(tag, n, h) ==
    LET m == Mailbox_new(h)
    IN [html |-> new_node(tag, n, m), heap |-> Extend(h, m, <<>>)]

\* view(value): div [ h1 [value], button [Increment], button [Decrement] ],
\* built as the view! macro builds it; ids[i] is what rand::random::<u16>()
\* returns for the i-th new_node.
view(value, ids, h) ==
    LET root == Fresh("div", ids[1], h)
        display == Fresh("h1", ids[2], root.heap)
        inc == Fresh("button", ids[3], display.heap)
        dec == Fresh("button", ids[4], inc.heap)
        Button(node, msg) ==
            add_child(add_event_handler(node, "click", ConstFun(msg)),
                      Text(msg))
    IN [html |->
            add_child(
                add_child(
                    add_child(root.html,
                              add_child(display.html, Text(ToString(value)))),
                    Button(inc.html, "Increment")),
                Button(dec.html, "Decrement")),
        heap |-> dec.heap]

\* spec.md 8: "Increment" is clicked three times, then "Decrement" once.
Scenario == <<"Increment", "Increment", "Increment", "Decrement">>

\* The numbers drawn at the first mount: pairwise distinct.
FirstIds == [i \in 1..4 |-> i - 1]

\* rand::random::<u16>(), up to renaming: an id is only ever compared with
\* the ids of the elements on the surface, so the numbers are those of the
\* mounted ids and one number that is on no element.
RandomU16 == 0..Len(FirstIds)

\* The numbers whose id is the id of an element on surface d.
OnSurface(d) ==
    {n \in RandomU16 : get_element_by_id(d, FormatId(n)) # None}

\* The draws of one view call, of which at most MaxCollisions repeat the id
\* of an element on surface d.
Draws(d) ==
    UNION {{ids \in [DOMAIN FirstIds -> RandomU16] :
               Cardinality({i \in DOMAIN FirstIds : ids[i] \in live})
                   <= MaxCollisions} :
           live \in {OnSurface(d)}}

(* --------------------------- the runtime loop -------------------------- *)
\* spec.md 4.5: Dispatch folds every message through update in arrival
\* order.
RECURSIVE FoldUpdate(_, _)
FoldUpdate(value, messages) ==
    IF messages = <<>> THEN value
    ELSE FoldUpdate(update(value, Head(messages)), Tail(messages))

\* The queues that can still be read or written: those of the active tree
\* and those the listeners on the surface write to.  The others are only
\* held by leaked closures (Closure::forget) that nothing can invoke.
LiveMailboxes(t, d) ==
    Mailboxes(t) \cup
    UNION {{d[h].listeners[j][2].mailbox : j \in 1..Len(d[h].listeners)} :
            h \in Attached(d)}

\* Process.new(Component) and Process.startLoop: the first view is rendered
\* into the view mount, its handlers are attached, and the first frame is
\* requested.
InitLoop ==
    LET v == view(CounterInit, FirstIds, <<>>)
    IN /\ tree = v.html
       /\ mail = v.heap
       /\ fault = "none"
       /\ log = <<>>
       /\ removed = <<>>
       /\ latest = [n |-> 0, fun |-> <<>>]
       /\ last = [op |-> "new"]
       /\ run = NoRun(<<>>)
       /\ dom = attach_event_listeners(v.html, set_inner_html(v.html)).dom
       /\ model = CounterInit
       /\ pc = "scheduled"
       /\ clicks = 0
       /\ sheet = render(v.html, <<>>).style_mount
       /\ frame = [phases |-> <<>>, model0 |-> CounterInit, out |-> <<>>,
                   pre |-> v.heap]

\* The user clicks the button of the next step of the scenario: the
\* platform delivers a click event to the button that reads so.
Click ==
    /\ fault = "none"
    /\ pc = "scheduled"
    /\ clicks < Len(Scenario)
    /\ LET o == DocOrder(dom, ViewMount)
           hits == {i \in 1..Len(o) :
                       /\ dom[o[i]].tag = "button"
                       /\ TextContent(dom, o[i]) = Scenario[clicks + 1]}
       IN /\ hits # {}
          /\ LET target == o[CHOOSE i \in hits : \A j \in hits : i <= j]
             IN mail' = DispatchEvent(mail, dom, EventPath(dom, target),
                                      "click", clicks + 1)
    /\ clicks' = clicks + 1
    /\ UNCHANGED <<sheet, tree, fault, log, removed, latest, last, run, dom, model,
                   pc, frame>>

\* Dispatch: tick over the active tree, then the fold.
Dispatch ==
    /\ fault = "none"
    /\ pc = "scheduled"
    /\ LET r == tick(tree, mail)
       IN /\ mail' = r.heap
          /\ model' = FoldUpdate(model, r.messages)
          /\ frame' = [phases |-> <<"dispatch">>, model0 |-> model,
                       out |-> r.messages, pre |-> mail]
    /\ pc' = "dispatched"
    /\ UNCHANGED <<sheet, tree, fault, log, removed, latest, last, run, dom, clicks>>

\* Render: view(Model), sync(active, candidate, root), and the candidate
\* becomes the active tree.  A panic in sync ends the frame callback.
\* last keeps the tree that was replaced and the mailboxes as they were.
Render(ids) ==
    /\ fault = "none"
    /\ pc = "dispatched"
    /\ \E v \in {view(model, ids, mail)} :
       \E r \in {sync(tree, v.html, ViewMount, dom)} :
          IF r.panic
          THEN /\ fault' = "panic"
               /\ tree' = r.self
               /\ dom' = r.dom
               /\ UNCHANGED <<mail, pc, frame, last>>
          ELSE /\ tree' = v.html
               /\ dom' = [h \in Attached(r.dom) |-> r.dom[h]]
               /\ mail' = [m \in LiveMailboxes(tree', dom') |-> v.heap[m]]
               /\ pc' = "rendered"
               /\ frame' = [frame EXCEPT !.phases = Append(@, "render")]
               /\ last' = [op |-> "render", old |-> tree, queued |-> mail]
               /\ UNCHANGED fault
    /\ UNCHANGED <<sheet, log, removed, latest, run, model, clicks>>

\* The frame callback requests the next frame and returns.
Schedule ==
    /\ fault = "none"
    /\ pc = "rendered"
    /\ pc' = "scheduled"
    /\ frame' = [frame EXCEPT !.phases = Append(@, "schedule")]
    /\ UNCHANGED <<sheet, tree, mail, fault, log, removed, latest, last, run, dom,
                   model, clicks>>

NextLoop ==
    \/ Click
    \/ Dispatch
    \/ pc = "dispatched" /\ \E ids \in Draws(dom) : Render(ids)
    \/ Schedule

SpecLoop == InitLoop /\ [][NextLoop]_vars

\* The platform calls every frame callback that was requested, and a
\* callback runs to its end.  The steps of NextLoop that change pc or fault
\* are those of Dispatch, Render and Schedule, and one of the three is
\* possible in every state in which the loop has not panicked: the frame
\* callback is weakly fair.
FrameStep ==
    /\ fault = "none"
    /\ fault' \in {"none", "panic"}
    /\ pc' \in {"scheduled", "dispatched", "rendered"}

FairSpecLoop == SpecLoop /\ WF_<<pc, fault>>(FrameStep)

(* --------------------------- the sync program -------------------------- *)
\* A client that holds a mounted tree and syncs it against new trees.
SyncValues == {"a", "b"}

\* The shapes of the trees with n Html values, every Text with its value.
RECURSIVE LeafyShapesOf(_)
RECURSIVE LeafyForestsOf(_)
LeafyShapesOf(n) ==
    IF n = 0 THEN {}
    ELSE {[kind |-> "Node", children |-> f] : f \in LeafyForestsOf(n - 1)}
         \cup (IF n = 1
               THEN {[kind |-> "Text", value |-> v] : v \in SyncValues}
               ELSE {})

LeafyForestsOf(n) ==
    IF n = 0 THEN {<<>>}
    ELSE UNION {{<<t>> \o f : t \in LeafyShapesOf(k),
                              f \in LeafyForestsOf(n - k)} : k \in 1..n}

\* The tree of a shape as the view! macro builds it; the id drawn for a
\* node is the number of its mailbox, from `next` on.
RECURSIVE Plant(_, _)
RECURSIVE PlantChildren(_, _, _)
Plant(shape, next) ==
    IF shape.kind = "Text" THEN [html |-> Text(shape.value), next |-> next]
    ELSE PlantChildren([html |-> new_node("div", next, next),
                        next |-> next + 1],
                       shape.children, 1)

PlantChildren(acc, shapes, i) ==
    IF i > Len(shapes) THEN acc
    ELSE LET c == Plant(shapes[i], acc.next)
         IN PlantChildren([html |-> add_child(acc.html, c.html),
                           next |-> c.next],
                          shapes, i + 1)

LeafyShapes == UNION {LeafyShapesOf(n) : n \in 1..MaxNodes}

\* The trees that are mounted, and the trees a later view call returns:
\* their ids are other numbers than those of the mounted tree.
SyncOlds == {Plant(shape, 1).html : shape \in LeafyShapes}

SyncNews == {Plant(shape, MaxNodes + 1).html : shape \in LeafyShapes}

InitSync ==
    \E t \in SyncOlds :
        /\ tree = t
        /\ mail = [m \in Mailboxes(t) |-> <<>>]
        /\ fault = "none"
        /\ log = <<>>
        /\ removed = <<>>
        /\ latest = [n |-> 0, fun |-> <<>>]
        /\ last = [op |-> "new"]
        /\ run = NoRun(<<>>)
        /\ dom = set_inner_html(t)
        /\ model = 0
        /\ pc = "client"
        /\ clicks = 0
        /\ sheet = render(t, <<>>).style_mount
        /\ frame = <<>>

\* tree.sync(&mut new, &view_mount). last.repeats holds the writes of the
\* call before when that call was a sync with the same new.
Sync(new) ==
    /\ fault = "none"
    /\ \E r \in {sync(tree, new, ViewMount, dom)} :
          /\ tree' = r.self
          /\ dom' = [h \in Attached(r.dom) |-> r.dom[h]]
          /\ fault' = IF r.panic THEN "panic" ELSE "none"
          /\ last' = [op |-> "sync", old |-> tree, surface |-> dom,
                      new |-> new, writes |-> r.writes,
                      repeats |-> IF last.op = "sync" /\ last.new = new
                                  THEN Some(last.writes) ELSE None]
    /\ UNCHANGED <<sheet, mail, log, removed, latest, run, model, pc, clicks, frame>>

NextSync == \E new \in SyncNews \cup {tree} : Sync(new)

SpecSync == InitSync /\ [][NextSync]_vars

(* --------------------------- the build program ------------------------- *)
\* A client that builds a tree with new_node and add_child, as the view!
\* macro and hand-written views do.

\* add_attribute that pushes the attribute twice.
add_attribute_twice(self, attribute) ==
    [self EXCEPT !.attributes = Append(Append(@, attribute), attribute)]

\* Html::add_attribute on a Node.
add_attribute(self, attribute) ==
    [self EXCEPT !.attributes = Append(@, attribute)]

\* Html::add_style on a Node.
add_style(self, style) == [self EXCEPT !.styling = Append(@, style)]

InitBuild == \E n \in RandomU16 : InitTree(new_node("div", n, 1))

\* node.add_child(child) on the value at path p; on a Text it panics.
AddChild(p, child) ==
    /\ fault = "none"
    /\ Size(tree) < MaxNodes
    /\ LET self == NodeAt(tree, p)
       IN IF self.kind = "Text" THEN Panic("add_child", p)
          ELSE /\ tree' = ReplaceAt(tree, p, add_child(self, child))
               /\ mail' = IF child.kind = "Node"
                          THEN Extend(mail, child.mailbox, <<>>)
                          ELSE mail
               /\ removed' = IF child.kind = "Node"
                             THEN Extend(removed, child.mailbox, <<>>)
                             ELSE removed
               /\ latest' = IF child.kind = "Node"
                            THEN [latest EXCEPT !.fun =
                                     Extend(@, child.mailbox, <<>>)]
                            ELSE latest
               /\ last' = [op |-> "add_child"]
               /\ UNCHANGED <<fault, log, run, loopVars>>

\* The children a client adds: a Text, or a new_node with the id drawn.
NewChildren ==
    {Text(v) : v \in TextValues}
       \cup {Fresh("div", n, mail).html : n \in RandomU16}

NextBuild == \E p \in Paths(tree), child \in NewChildren : AddChild(p, child)

SpecBuild == InitBuild /\ [][NextBuild]_vars

(* ------------------------- the identity program ------------------------ *)
\* A client that mounts a tree, then mutates it and syncs it in any order.
Attributes == {[kind |-> "Pair", key |-> "id", value |-> "x"]}

Styles == {[kind |-> "Style", property |-> "color", value |-> "red"]}

\* The Html values, attributes, styles and handlers of t.
RECURSIVE Weight(_)
RECURSIVE WeightOfAll(_, _)
Weight(t) ==
    IF t.kind = "Text" THEN 1
    ELSE 1 + Len(t.attributes) + Len(t.styling)
           + Cardinality(DOMAIN t.events) + WeightOfAll(t.children, 1)

WeightOfAll(ts, i) ==
    IF i > Len(ts) THEN 0 ELSE Weight(ts[i]) + WeightOfAll(ts, i + 1)

\* node.add_attribute(attribute) on the value at path p.
AddAttribute(p, attribute) ==
    /\ fault = "none"
    /\ Weight(tree) < MaxWeight
    /\ LET self == NodeAt(tree, p)
       IN IF self.kind = "Text" THEN Panic("add_attribute", p)
          ELSE /\ tree' = ReplaceAt(tree, p, add_attribute(self, attribute))
               /\ last' = [op |-> "add_attribute"]
               /\ UNCHANGED <<mail, fault, log, removed, latest, run,
                              loopVars>>

\* node.add_style(style) on the value at path p.
AddStyle(p, style) ==
    /\ fault = "none"
    /\ Weight(tree) < MaxWeight
    /\ LET self == NodeAt(tree, p)
       IN IF self.kind = "Text" THEN Panic("add_style", p)
          ELSE /\ tree' = ReplaceAt(tree, p, add_style(self, style))
               /\ last' = [op |-> "add_style"]
               /\ UNCHANGED <<mail, fault, log, removed, latest, run,
                              loopVars>>

\* The shapes of one or two Html values whose Texts have value v.
SmallShapes(v) ==
    {shape \in LeafyShapesOf(1) \cup LeafyShapesOf(2) :
        /\ shape.kind = "Text" => shape.value = v
        /\ shape.kind = "Node" =>
              \A i \in 1..Len(shape.children) :
                  shape.children[i].kind = "Text" =>
                     shape.children[i].value = v}

IdentityOlds == {Plant(shape, 1).html : shape \in SmallShapes("a")}

IdentityNews == {Plant(shape, MaxNodes + 1).html : shape \in SmallShapes("b")}

\* The children this client adds; the new Node draws the id of the root.
IdentityChildren == {Text("a"), Fresh("div", 1, mail).html}

InitIdentity ==
    \E t \in IdentityOlds :
        /\ tree = t
        /\ mail = [m \in Mailboxes(t) |-> <<>>]
        /\ fault = "none"
        /\ log = <<>>
        /\ removed = [m \in Mailboxes(t) |-> <<>>]
        /\ latest = [n |-> 0, fun |-> [m \in Mailboxes(t) |-> <<>>]]
        /\ last = [op |-> "new"]
        /\ run = NoRun(mail)
        /\ dom = set_inner_html(t)
        /\ model = 0
        /\ pc = "client"
        /\ clicks = 0
        /\ sheet = render(t, <<>>).style_mount
        /\ frame = <<>>

NextIdentity ==
    \/ \E new \in IdentityNews \cup {tree} : Sync(new)
    \/ /\ Weight(tree) < MaxWeight
       /\ \E p \in Paths(tree), child \in IdentityChildren :
             AddChild(p, child)
    \/ \E p \in Paths(tree), attribute \in Attributes :
          AddAttribute(p, attribute)
    \/ \E p \in Paths(tree), style \in Styles : AddStyle(p, style)
    \/ /\ Weight(tree) < MaxWeight
       /\ \E p \in Paths(tree) : AddEventHandler(p, "click", TagFun("f"))

SpecIdentity == InitIdentity /\ [][NextIdentity]_vars

(* ------------------------- the listener program ------------------------ *)
\* A client that mounts a tree, attaches its handlers once, and then
\* receives events, registers handlers again, ticks and re-renders.
ListenerShapes ==
    LET n == [kind |-> "Node", children |-> <<>>]
        t == [kind |-> "Text"]
    IN {n,
        [kind |-> "Node", children |-> <<t>>],
        [kind |-> "Node", children |-> <<n>>]}

\* What rand::random::<u16>() returns for the i-th new_node of a view, up to
\* renaming: a number not drawn before, or one drawn before.
ListenerDraws == {ids \in [1..2 -> 1..2] : \A i \in 1..2 : ids[i] <= i}

\* The tree of a shape as the view! macro builds it when the i-th new_node
\* draws ids[i]; `next` is the next free mailbox reference.
RECURSIVE Raise(_, _, _, _)
RECURSIVE RaiseChildren(_, _, _, _, _)
Raise(shape, menu, ids, next) ==
    IF shape.kind = "Text" THEN [html |-> Text("a"), next |-> next]
    ELSE RaiseChildren(
            [html |-> AddHandlers(new_node("div", ids[next], next), menu),
             next |-> next + 1],
            shape.children, 1, menu, ids)

RaiseChildren(acc, shapes, i, menu, ids) ==
    IF i > Len(shapes) THEN acc
    ELSE LET c == Raise(shapes[i], menu, ids, acc.next)
         IN RaiseChildren([html |-> add_child(acc.html, c.html),
                           next |-> c.next],
                          shapes, i + 1, menu, ids)

ListenerTrees ==
    {Raise(shape, menu, ids, 1).html :
        shape \in ListenerShapes, menu \in HandlerMenus, ids \in ListenerDraws}

\* The tree a later view call returns for the same structure: new Nodes
\* (new ids, new mailboxes), every handler registered with function fun.
RECURSIVE Rerender(_, _, _)
RECURSIVE RerenderHandlers(_, _, _, _)
RerenderHandlers(node, events, fun, i) ==
    IF i > Len(KeyOrder) THEN node
    ELSE RerenderHandlers(
            IF KeyOrder[i] \in DOMAIN events
            THEN add_event_handler(node, KeyOrder[i], fun)
            ELSE node,
            events, fun, i + 1)

Rerender(t, fun, offset) ==
    IF t.kind = "Text" THEN t
    ELSE [RerenderHandlers(
             new_node(t.tag, t.mailbox + offset, t.mailbox + offset),
             t.events, fun, 1)
          EXCEPT !.children =
             [i \in 1..Len(t.children) |->
                 Rerender(t.children[i], fun, offset)]]

InitListeners ==
    \E t \in ListenerTrees :
        /\ tree = t
        /\ mail = [m \in Mailboxes(t) |-> <<>>]
        /\ fault = "none"
        /\ log = <<>>
        /\ removed = [m \in Mailboxes(t) |-> <<>>]
        /\ latest = [n |-> 0,
                     fun |-> [m \in Mailboxes(t) |-> RegisteredFuns(t, m)]]
        /\ last = [op |-> "new"]
        /\ run = NoRun(mail)
        /\ dom = set_inner_html(t)
        /\ model = 0
        /\ pc = "mounted"
        /\ clicks = 0
        /\ sheet = render(t, <<>>).style_mount
        /\ frame = <<>>

\* tree.attach_event_listeners(), once per mount.
Attach ==
    /\ fault = "none"
    /\ pc = "mounted"
    /\ \E r \in {attach_event_listeners(tree, dom)} :
          /\ dom' = r.dom
          /\ last' = [op |-> "attach", calls |-> r.calls]
    /\ pc' = "attached"
    /\ UNCHANGED <<sheet, tree, mail, fault, log, removed, latest, run, model,
                   clicks, frame>>

\* The platform dispatches event `name` at live element h: the listeners
\* on h and on its ancestors run (html.rs 481-483).
Fire(h, name) ==
    /\ fault = "none"
    /\ clicks < MaxEvents
    /\ mail' = DispatchEvent(mail, dom, EventPath(dom, h), name, clicks + 1)
    /\ clicks' = clicks + 1
    /\ last' = [op |-> "fire", target |-> h, name |-> name,
                value |-> clicks + 1]
    /\ run' = NoRun(mail')
    /\ UNCHANGED <<sheet, tree, fault, log, removed, latest, dom, model, pc, frame>>

NextListeners ==
    \/ Attach
    \/ \E h \in DOMAIN dom \ {ViewMount}, name \in EventNames : Fire(h, name)
    \/ \E p \in Paths(tree) : AddEventHandler(p, "click", TagFun("g"))
    \/ Tick
    \/ Sync(Rerender(tree, TagFun("g"), MaxNodes))

SpecListeners == InitListeners /\ [][NextListeners]_vars

(* -------------------------- the mount program -------------------------- *)
\* A client that builds a tree and then, in any order, puts it on the live
\* surface, attaches its listeners, deletes them, syncs it and registers
\* handlers again.

\* Reactor::init_mounts: the view mount is a new div with nothing in it.
init_mounts == Extend(<<>>, ViewMount, Element("div", ""))

InitMount ==
    \E t \in Trees :
        /\ tree = t
        /\ mail = [m \in Mailboxes(t) |-> <<>>]
        /\ fault = "none"
        /\ log = <<>>
        /\ removed = [m \in Mailboxes(t) |-> <<>>]
        /\ latest = [n |-> 0,
                     fun |-> [m \in Mailboxes(t) |-> RegisteredFuns(t, m)]]
        /\ last = [op |-> "new"]
        /\ run = NoRun(mail)
        /\ dom = init_mounts
        /\ model = 0
        /\ pc = [mounted |-> FALSE, listeners |-> "none"]
        /\ clicks = 0
        /\ sheet = <<>>
        /\ frame = <<>>

\* view_mount.set_inner_html(tree.render(..))
Mount ==
    /\ fault = "none"
    /\ ~pc.mounted
    /\ dom' = set_inner_html(tree)
    /\ sheet' = render(tree, sheet).style_mount
    /\ pc' = [pc EXCEPT !.mounted = TRUE]
    /\ last' = [op |-> "mount"]
    /\ UNCHANGED <<tree, mail, fault, log, removed, latest, run, model,
                   clicks, frame>>

\* tree.attach_event_listeners()
AttachListeners ==
    /\ fault = "none"
    /\ pc.listeners = "none"
    /\ \E r \in {attach_event_listeners(tree, dom)} :
          /\ dom' = r.dom
          /\ last' = [op |-> "attach", calls |-> r.calls, surface |-> dom]
    /\ pc' = [pc EXCEPT !.listeners = "attached"]
    /\ UNCHANGED <<sheet, tree, mail, fault, log, removed, latest, run, model,
                   clicks, frame>>

\* tree.delete_event_listeners()
DeleteListeners ==
    /\ fault = "none"
    /\ pc.listeners # "deleted"
    /\ \E r \in {delete_event_listeners(tree, dom)} :
          /\ dom' = r.dom
          /\ fault' = IF r.panic THEN "panic" ELSE "none"
          /\ last' = [op |-> "delete", calls |-> r.calls, surface |-> dom]
    /\ pc' = [pc EXCEPT !.listeners = "deleted"]
    /\ UNCHANGED <<sheet, tree, mail, log, removed, latest, run, model, clicks,
                   frame>>

NextMount ==
    \/ Mount
    \/ AttachListeners
    \/ DeleteListeners
    \/ Sync(Rerender(tree, TagFun("g"), MaxNodes))
    \/ \E p \in Paths(tree) : AddEventHandler(p, "click", TagFun("g"))

SpecMount == InitMount /\ [][NextMount]_vars

(* -------------------------- the render program ------------------------- *)
\* A client that builds a Node with attributes, styles and at most one
\* child, renders it into an empty Style Mount, and deletes the rules of
\* one of its Nodes.

StyleMenu ==
    {Declaration("color", "red"),
     Declaration("font_size", "1em"),
     PseudoClass("hover", <<Declaration("color", "blue")>>),
     PseudoClass("focus", <<Declaration("font_size", "2em"),
                            PseudoClass("hover", <<>>)>>)}

AttributeMenu ==
    {Pair("id", "x"), Pair("class", "x"),
     Toggle("hidden", TRUE), Toggle("checked", FALSE)}

\* The numbers rand::random::<u16>() returns in this program.
RenderDraws == {1, 2, 12}

\* The children a rendered Node is given: none, a Text, or a Node with at
\* most one style.
RenderChildren ==
    {<<>>} \cup {<<Text(v)>> : v \in TextValues}
           \cup {<<new_node("div", n, 2)>> : n \in RenderDraws}
           \cup {<<add_style(new_node("div", n, 2), style)>> :
                    n \in RenderDraws, style \in StyleMenu}

\* root with the attributes, styles and children pushed in order.
RECURSIVE Decorate(_, _, _, _, _)
Decorate(root, attributes, styling, children, i) ==
    IF i <= Len(attributes)
    THEN Decorate(add_attribute(root, attributes[i]), attributes, styling,
                  children, i + 1)
    ELSE IF i <= Len(attributes) + Len(styling)
    THEN Decorate(add_style(root, styling[i - Len(attributes)]), attributes,
                  styling, children, i + 1)
    ELSE IF i <= Len(attributes) + Len(styling) + Len(children)
    THEN Decorate(add_child(root,
                            children[i - Len(attributes) - Len(styling)]),
                  attributes, styling, children, i + 1)
    ELSE root

InitRender ==
    \E n \in RenderDraws, na \in 0..(MaxWeight - 1) :
    \E ns \in 0..(MaxWeight - 1 - na) :
    \E attributes \in [1..na -> AttributeMenu],
       styling \in [1..ns -> StyleMenu],
       children \in RenderChildren :
        /\ tree = Decorate(new_node("div", n, 1), attributes, styling,
                           children, 1)
        /\ Weight(tree) <= MaxWeight
        /\ mail = [m \in Mailboxes(tree) |-> <<>>]
        /\ fault = "none"
        /\ log = <<>>
        /\ removed = [m \in Mailboxes(tree) |-> <<>>]
        /\ latest = [n |-> 0, fun |-> [m \in Mailboxes(tree) |-> <<>>]]
        /\ last = [op |-> "new"]
        /\ run = NoRun(mail)
        /\ dom = init_mounts
        /\ model = 0
        /\ pc = "built"
        /\ clicks = 0
        /\ sheet = <<>>
        /\ frame = <<>>

\* Style::render_decls(&selector, &styling) on the root's styles, and
\* render_decl and render_pseudo_selector on each of them.
RenderDecls ==
    /\ pc = "built"
    /\ last' = [op |-> "render_decls",
                decls |-> [i \in 1..Len(tree.styling) |->
                              render_decl(tree.styling[i])],
                pseudos |-> [i \in 1..Len(tree.styling) |->
                                render_pseudo_selector(tree.styling[i],
                                                       tree.id)],
                out |-> render_decls("#" \o tree.id, tree.styling)]
    /\ UNCHANGED <<tree, mail, fault, log, removed, latest, run, loopVars>>

\* tree.render(&style_mount)
RenderTree ==
    /\ pc = "built"
    /\ \E r \in {render(tree, sheet)} :
          /\ sheet' = r.style_mount
          /\ last' = [op |-> "render", markup |-> r.markup]
    /\ pc' = "rendered"
    /\ UNCHANGED <<tree, mail, fault, log, removed, latest, run, dom, model,
                   clicks, frame>>

\* style_mount.delete(&id) for the id of the Node at path p.
StyleDelete(p) ==
    /\ pc = "rendered"
    /\ sheet' = StyleMount_delete(sheet, NodeAt(tree, p).id)
    /\ last' = [op |-> "style_delete", path |-> p, rules |-> sheet]
    /\ pc' = "deleted"
    /\ UNCHANGED <<tree, mail, fault, log, removed, latest, run, dom, model,
                   clicks, frame>>

NextRender ==
    \/ RenderDecls
    \/ RenderTree
    \/ \E p \in NodePaths(tree) : StyleDelete(p)

SpecRender == InitRender /\ [][NextRender]_vars

(* ------------------------- core.rs: the Reactor ------------------------ *)
\* core.rs has its own Node (tag, attributes, styling, children; no id, no
\* handlers), scoped by a class named after the hash of the styling, and the
\* Reactor that puts the first view on the surface.

\* Node::Node of core.rs, as new_node of the view! macro makes it.
core_new_node(tag) ==
    [kind |-> "Node", tag |-> tag, attributes |-> <<>>, styling |-> <<>>,
     children |-> <<>>]

\* The styles of StyleMenu in a fixed order.
StyleOrder ==
    <<Declaration("color", "red"),
      Declaration("font_size", "1em"),
      PseudoClass("hover", <<Declaration("color", "blue")>>),
      PseudoClass("focus", <<Declaration("font_size", "2em"),
                             PseudoClass("hover", <<>>)>>)>>

\* calculate_hash: DefaultHasher has fixed keys, so the hash is a function
\* of the style list; lists of StyleMenu entries get different numbers.
RECURSIVE calculate_hash(_)
calculate_hash(styling) ==
    IF styling = <<>> THEN 0
    ELSE (Len(StyleOrder) + 1)
            * calculate_hash(SubSeq(styling, 1, Len(styling) - 1))
         + (CHOOSE k \in 1..Len(StyleOrder) :
               StyleOrder[k] = styling[Len(styling)])

\* Node::get_css_hash
get_css_hash(self) ==
    IF self.kind = "Node" THEN Some(calculate_hash(self.styling)) ELSE None

\* core.rs Style::render_pseudo_selector
core_render_pseudo_selector(self, css_hash) ==
    IF self.kind = "Style" THEN None
    ELSE Some(render_decls("._" \o ToString(css_hash) \o ":" \o self.name,
                           self.body))

\* core.rs 205-213: the Some(rendered) of the styles from the i-th on.
RECURSIVE pseudo_decls(_, _, _)
pseudo_decls(styling, hash, i) ==
    IF i > Len(styling) THEN <<>>
    ELSE (IF core_render_pseudo_selector(styling[i], hash) # None
          THEN core_render_pseudo_selector(styling[i], hash)
          ELSE <<>>) \o pseudo_decls(styling, hash, i + 1)

\* Node::stringify_css: the hash and the rules of this Node.
stringify_css(self) ==
    IF self.kind = "Node"
    THEN LET hash == get_css_hash(self)[1]
         IN Some(<<hash,
                   render_decls("._" \o ToString(hash), self.styling)
                      \o "\n"
                      \o join(pseudo_decls(self.styling, hash, 1), " ", 1)>>)
    ELSE None

\* core.rs 127-144: set_hash_class.
set_hash_class(hash, attributes) ==
    LET IsClass(atr) == is_pair(atr) /\ atr.key = "class"
    IN IF \E i \in 1..Len(attributes) : IsClass(attributes[i])
       THEN [i \in 1..Len(attributes) |->
                IF IsClass(attributes[i])
                THEN [attributes[i] EXCEPT
                         !.value = @ \o "_" \o ToString(hash)]
                ELSE attributes[i]]
       ELSE Append(attributes, Pair("class", "_" \o ToString(hash)))

\* Node::stringify_attributes
stringify_attributes(self) ==
    IF self.kind = "Node"
    THEN LET attributes ==
                set_hash_class(get_css_hash(self)[1], self.attributes)
         IN Some(join([i \in 1..Len(attributes) |->
                          RenderAttribute(attributes[i])], " ", 1))
    ELSE None

\* Node::stringify_html
RECURSIVE stringify_html(_)
stringify_html(self) ==
    IF self.kind = "Node"
    THEN LET attributes == stringify_attributes(self)
             children == join([i \in 1..Len(self.children) |->
                                  stringify_html(self.children[i])], "\n", 1)
         IN IF attributes = None
            THEN "<" \o self.tag \o ">" \o children
                    \o "</" \o self.tag \o ">"
            ELSE "<" \o self.tag \o " " \o attributes[1] \o ">" \o children
                    \o "</" \o self.tag \o ">"
    ELSE self.value

\* What the platform's parser makes of the markup of a core.rs Node: an
\* element per Node, with the id of its first id attribute if it has one.
RECURSIVE Parsed(_)
Parsed(self) ==
    IF self.kind = "Text" THEN self
    ELSE LET ids == {i \in 1..Len(self.attributes) :
                        /\ is_pair(self.attributes[i])
                        /\ self.attributes[i].key = "id"}
         IN [kind |-> "Node", tag |-> self.tag,
             id |-> IF ids = {} THEN ""
                    ELSE self.attributes[CHOOSE i \in ids :
                                            \A j \in ids : i <= j].value,
             children |-> [i \in 1..Len(self.children) |->
                              Parsed(self.children[i])]]

(* ------------------------- the Reactor program ------------------------- *)
\* A client that builds a core.rs Node with attributes, styles and at most
\* one child (so that no "\n" stands between two children in the markup),
\* or a Text, and hands it to Reactor::new.

ReactorChildren ==
    {<<>>} \cup {<<Text(v)>> : v \in TextValues}
           \cup {<<core_new_node("div")>>}
           \cup {<<add_style(core_new_node("div"), style)>> :
                    style \in StyleMenu}

ReactorTrees ==
    {Text(v) : v \in TextValues}
       \cup UNION {UNION {
              {Decorate(core_new_node("div"), attributes, styling,
                        children, 1) :
                  attributes \in [1..na -> AttributeMenu],
                  styling \in [1..ns -> StyleMenu],
                  children \in {c \in ReactorChildren :
                                   na + ns + Len(c)
                                      + (IF c # <<>> /\ c[1].kind = "Node"
                                         THEN Len(c[1].styling) ELSE 0)
                                      < MaxWeight}} :
              ns \in 0..(MaxWeight - 1 - na)} : na \in 0..(MaxWeight - 1)}

InitReactor ==
    \E t \in ReactorTrees :
        /\ tree = t
        /\ mail = <<>>
        /\ fault = "none"
        /\ log = <<>>
        /\ removed = <<>>
        /\ latest = [n |-> 0, fun |-> <<>>]
        /\ last = [op |-> "new"]
        /\ run = NoRun(mail)
        /\ dom = <<>>
        /\ model = 0
        /\ pc = "built"
        /\ clicks = 0
        /\ sheet = <<>>
        /\ frame = <<>>

\* Reactor::new(initial): init_mounts, then init_view, which panics at
\* expect("initial css") when the initial value is a Text.
ReactorNew ==
    /\ fault = "none"
    /\ pc = "built"
    /\ \E markup \in {stringify_html(tree)}, css \in {stringify_css(tree)} :
          IF css = None
          THEN /\ fault' = "panic"
               /\ dom' = init_mounts
               /\ sheet' = <<>>
               /\ last' = [op |-> "Reactor::new", markup |-> markup]
          ELSE /\ fault' = "none"
               /\ dom' = set_inner_html(Parsed(tree))
               /\ sheet' = <<css[1][2]>>
               /\ last' = [op |-> "Reactor::new", markup |-> markup]
    /\ pc' = "initialized"
    /\ UNCHANGED <<tree, mail, log, removed, latest, run, model, clicks,
                   frame>>

NextReactor == ReactorNew

SpecReactor == InitReactor /\ [][NextReactor]_vars

(* ------------------------ properties of tick --------------------------- *)
Max(a, b) == IF a >= b THEN a ELSE b

Values(q) == {q[j][2] : j \in 1..Len(q)}

\* The Node of tree t that owns mailbox m, as a path.
PathOf(t, m) == CHOOSE p \in NodePaths(t) : NodeAt(t, p).mailbox = m

\* The mailbox whose queue, before the tick, held the event a message of
\* the tick's output was computed from.
SourceOf(pre, msg) ==
    CHOOSE m \in DOMAIN pre : msg[2] \in Values(pre[m])

HasSource(pre, msg) == \E m \in DOMAIN pre : msg[2] \in Values(pre[m])

\* The messages of out computed from the events that were in queue q.
From(out, q) == LET T(msg) == msg[2] \in Values(q) IN SelectSeq(out, T)

IsPrefix(p, q) == Len(p) <= Len(q) /\ SubSeq(q, 1, Len(p)) = p

\* Path p is visited before path q in a depth-first post-order walk.
PostOrderBefore(p, q) ==
    \/ Len(q) < Len(p) /\ IsPrefix(q, p)
    \/ \E k \in 1..Len(p) :
          /\ k <= Len(q)
          /\ SubSeq(p, 1, k - 1) = SubSeq(q, 1, k - 1)
          /\ p[k] < q[k]

Handled(node, q) == \A j \in 1..Len(q) : q[j][1] \in DOMAIN node.events

\* C1: one call of tick takes at most one entry out of each Node's mailbox:
\* every mailbox is left with max(0, length before - 1) entries, and the
\* returned sequence holds at most one message per Node, each computed
\* from an entry that was queued.
TickDrainsOnePerMailbox ==
    last.op = "tick" =>
        /\ \A m \in Mailboxes(tree) :
              /\ Len(mail[m]) = Max(0, Len(last.pre[m]) - 1)
              /\ Len(From(last.out, last.pre[m])) <= 1
        /\ \A i \in 1..Len(last.out) : HasSource(last.pre, last.out[i])
        /\ Len(last.out) <= Cardinality(Mailboxes(tree))

\* A tick over a mailbox that held two entries, one of which is left.
TickDrainsOneWitness ==
    /\ last.op = "tick"
    /\ \E m \in Mailboxes(tree) :
          /\ Len(last.pre[m]) = 2
          /\ Len(mail[m]) = 1
          /\ Len(From(last.out, last.pre[m])) = 1

\* C2: in the sequence tick returns, the message of a descendant comes
\* before the message of the node itself, and the messages of sibling
\* subtrees come in child order: the output is in depth-first post-order
\* of the Nodes the messages come from.
TickPostOrder ==
    last.op = "tick" =>
        \A i, j \in 1..Len(last.out) :
            i < j =>
                PostOrderBefore(PathOf(tree, SourceOf(last.pre, last.out[i])),
                                PathOf(tree, SourceOf(last.pre, last.out[j])))

\* A tick that returned the message of a child and then that of its parent.
TickPostOrderWitness ==
    /\ last.op = "tick"
    /\ \E i, j \in 1..Len(last.out) :
          LET pi == PathOf(tree, SourceOf(last.pre, last.out[i]))
              pj == PathOf(tree, SourceOf(last.pre, last.out[j]))
          IN i < j /\ Len(pj) < Len(pi) /\ IsPrefix(pj, pi)

\* C4: when the front entry of a Node's mailbox names an event the Node has
\* no handler for, tick removes the entry, returns no message for it and
\* does not fail; the other Nodes' front entries are dispatched as usual.
TickDropsUnhandled ==
    last.op = "tick" =>
        \A p \in NodePaths(tree) :
            LET node == NodeAt(tree, p)
                q == last.pre[node.mailbox]
            IN q # <<>> =>
                 /\ mail[node.mailbox] = Tail(q)
                 /\ fault = "none"
                 /\ IF q[1][1] \in DOMAIN node.events
                    THEN From(last.out, q) =
                            <<eval(node.events[q[1][1]], q[1][2])>>
                    ELSE From(last.out, q) = <<>>

\* A tick that dropped an unhandled entry of one Node and dispatched the
\* entry of another Node.
TickDropsUnhandledWitness ==
    /\ last.op = "tick"
    /\ fault = "none"
    /\ \E p, r \in NodePaths(tree) :
          LET node == NodeAt(tree, p)
              q == last.pre[node.mailbox]
              other == last.pre[NodeAt(tree, r).mailbox]
          IN /\ p # r
             /\ q # <<>> /\ q[1][1] \notin DOMAIN node.events
             /\ DOMAIN node.events # {}
             /\ mail[node.mailbox] = <<>>
             /\ Len(From(last.out, other)) = 1

\* C5: tick on a tree whose mailboxes are all empty returns no message.
TickEmptyMailboxes ==
    (last.op = "tick" /\ \A m \in Mailboxes(tree) : last.pre[m] = <<>>) =>
        last.out = <<>> /\ mail = last.pre

\* A tick over empty mailboxes on a tree of several Nodes with handlers.
TickEmptyWitness ==
    /\ last.op = "tick"
    /\ \A m \in Mailboxes(tree) : last.pre[m] = <<>>
    /\ Cardinality(Mailboxes(tree)) >= 2
    /\ \A p \in NodePaths(tree) : DOMAIN NodeAt(tree, p).events # {}
    /\ last.out = <<>>

\* The entries inserted into mailbox m so far, in order.
Inserted(m) ==
    LET T(x) == x.mailbox = m
        mine == SelectSeq(log, T)
    IN [j \in 1..Len(mine) |-> <<mine[j].name, mine[j].value>>]

\* C6: a Mailbox is a FIFO queue: the entries taken out of it followed by
\* the entries still in it are the entries inserted, in insertion order;
\* remove returns the front entry, and on an empty mailbox it returns None
\* and leaves the mailbox empty.
MailboxFifo ==
    /\ \A m \in DOMAIN mail : Inserted(m) = removed[m] \o mail[m]
    /\ last.op = "remove" =>
          IF last.pre = <<>>
          THEN last.ret = None /\ mail[last.mailbox] = <<>>
          ELSE last.ret = Some(Head(last.pre))
               /\ mail[last.mailbox] = Tail(last.pre)

\* Two entries inserted into one mailbox and removed in that order, then a
\* remove on the empty mailbox.
MailboxFifoWitness ==
    /\ last.op = "remove" /\ last.pre = <<>> /\ last.ret = None
    /\ Len(removed[last.mailbox]) = 2
    /\ removed[last.mailbox][1][2] < removed[last.mailbox][2][2]

\* C3: tick interprets an entry with the handler registered under its event
\* name at dispatch time: every message is computed by the function of the
\* most recent add_event_handler call for that Node and name, also when
\* another function was registered when the event was queued.
TickUsesCurrentHandler ==
    last.op = "tick" =>
        \A i \in 1..Len(last.out) :
            LET msg == last.out[i]
                fired == log[msg[2]]
            IN /\ fired.name \in DOMAIN latest.fun[fired.mailbox]
               /\ msg = <<latest.fun[fired.mailbox][fired.name].name,
                          fired.value>>

\* A tick that dispatched an event through a handler registered after the
\* event was queued under another handler.
TickUsesCurrentHandlerWitness ==
    /\ last.op = "tick"
    /\ \E i \in 1..Len(last.out) :
          LET msg == last.out[i]
              fired == log[msg[2]]
          IN /\ fired.under # None
             /\ fired.under[1] # latest.fun[fired.mailbox][fired.name]
             /\ msg[1] = latest.fun[fired.mailbox][fired.name].name
             /\ msg[1] # fired.under[1].name

\* C7: a burst of n events queued in one Node's mailbox, all with a handler
\* registered, is delivered by the next n ticks, one message per tick in
\* insertion order, and the mailbox is empty from the n-th tick on.
BurstDeliveredInOrder ==
    \A p \in NodePaths(tree) :
        LET node == NodeAt(tree, p)
            q == run.start[node.mailbox]
            k == Len(run.outs)
        IN Handled(node, q) =>
             /\ \A i \in 1..k :
                   From(run.outs[i], q) =
                      IF i <= Len(q)
                      THEN <<eval(node.events[q[i][1]], q[i][2])>>
                      ELSE <<>>
             /\ mail[node.mailbox] = SubSeq(q, k + 1, Len(q))

\* A burst of two events delivered by two ticks, and a third tick after it.
BurstWitness ==
    \E p \in NodePaths(tree) :
        LET node == NodeAt(tree, p)
            q == run.start[node.mailbox]
        IN /\ Len(q) = 2 /\ Handled(node, q)
           /\ Len(run.outs) = 3
           /\ Len(run.outs[1]) = 1 /\ Len(run.outs[2]) = 1
           /\ run.outs[3] = <<>>
           /\ run.outs[1][1][2] < run.outs[2][1][2]
           /\ mail[node.mailbox] = <<>>

(* -------------------- properties of the runtime loop ------------------- *)
\* The Nodes of a tree in depth-first post-order.
RECURSIVE PostOrderNodes(_)
RECURSIVE PostOrderForest(_, _)
PostOrderNodes(t) ==
    IF t.kind = "Text" THEN <<>>
    ELSE PostOrderForest(t.children, 1) \o <<t>>

PostOrderForest(children, i) ==
    IF i > Len(children) THEN <<>>
    ELSE PostOrderNodes(children[i]) \o PostOrderForest(children, i + 1)

\* The message of the front entry of a Node's mailbox, if it has one and
\* the Node handles it.
FrontMessage(node, h) ==
    IF h[node.mailbox] # <<>> /\ h[node.mailbox][1][1] \in DOMAIN node.events
    THEN <<eval(node.events[h[node.mailbox][1][1]], h[node.mailbox][1][2])>>
    ELSE <<>>

RECURSIVE FrontMessages(_, _)
FrontMessages(nodes, h) ==
    IF nodes = <<>> THEN <<>>
    ELSE FrontMessage(Head(nodes), h) \o FrontMessages(Tail(nodes), h)

\* The text the counter shows: the text content of the h1 element.
DisplayText(d) ==
    LET o == DocOrder(d, ViewMount)
        hits == {i \in 1..Len(o) : d[o[i]].tag = "h1"}
    IN IF hits = {} THEN ""
       ELSE TextContent(d, o[CHOOSE i \in hits : \A j \in hits : i <= j])

\* C8: every frame runs one Dispatch, then one Render, then schedules the
\* next frame, and the loop never stops: no frame is cut short, the phases
\* of a frame are a prefix of dispatch, render, schedule, and the loop
\* stands where the phases say.
FrameCycleForever ==
    /\ fault = "none"
    /\ IsPrefix(frame.phases, <<"dispatch", "render", "schedule">>)
    /\ (pc = "dispatched") <=> (frame.phases = <<"dispatch">>)
    /\ (pc = "rendered") <=> (frame.phases = <<"dispatch", "render">>)
    /\ (pc = "scheduled") <=>
          (frame.phases \in {<<>>, <<"dispatch", "render", "schedule">>})

ScenarioPlayed == clicks = Len(Scenario)

CounterReadsTwo ==
    /\ fault = "none"
    /\ pc \in {"rendered", "scheduled"}
    /\ model = 2
    /\ DisplayText(dom) = "2"

\* C10: once Increment has been clicked three times and Decrement once, the
\* loop reaches a state, after a Render, where the Model is 2 and the
\* counter's live text reads "2".
CounterScenarioReachesTwo == ScenarioPlayed ~> CounterReadsTwo

(* ------------------------- properties of sync -------------------------- *)
Synced == last.op = "sync"

\* The positions at which sync is called when the roots are `old` and `new`.
RECURSIVE Visited(_, _)
Visited(old, new) ==
    {<<>>} \cup
    (IF old.kind = "Node" /\ new.kind = "Node"
        /\ Len(old.children) = Len(new.children)
     THEN UNION {{<<i>> \o q : q \in Visited(old.children[i], new.children[i])}
                 : i \in 1..Len(old.children)}
     ELSE {})

BothText(old, new, p) ==
    NodeAt(old, p).kind = "Text" /\ NodeAt(new, p).kind = "Text"

\* The visited Text/Text pairs whose values differ.
Differing(old, new) ==
    {p \in Visited(old, new) :
        BothText(old, new, p) /\ NodeAt(old, p).value # NodeAt(new, p).value}

\* The live element sync passes down as the parent of position p.
ParentRef(old, d, p) ==
    IF Len(p) = 0 THEN ViewMount
    ELSE get_live(NodeAt(old, SubSeq(p, 1, Len(p) - 1)), d)[1]

\* C11: sync of Text against Text. Values differ: the text content of the
\* parent's live element is overwritten with the new value and the old
\* node stores the new value. Values equal: neither the live surface nor
\* the old node is changed.
TextSyncOverwrites ==
    Synced =>
      /\ BothText(last.old, last.new, <<>>) =>
           IF last.old.value # last.new.value
           THEN /\ TextContent(dom, ViewMount) = last.new.value
                /\ tree = Text(last.new.value)
                /\ last.writes = <<<<ViewMount, last.new.value>>>>
           ELSE /\ dom = last.surface
                /\ tree = last.old
                /\ last.writes = <<>>
      /\ fault = "none" =>
           /\ \A p \in Visited(last.old, last.new) :
                 BothText(last.old, last.new, p) =>
                    NodeAt(tree, p) = Text(NodeAt(last.new, p).value)
           /\ {last.writes[i] : i \in 1..Len(last.writes)}
                 = {<<ParentRef(last.old, last.surface, p),
                      NodeAt(last.new, p).value>>
                    : p \in Differing(last.old, last.new)}
           /\ Differing(last.old, last.new) = {} => dom = last.surface

TextSyncWitness ==
    /\ Synced
    /\ last.old = Text("a")
    /\ last.new = Text("b")
    /\ tree = Text("b")
    /\ TextContent(dom, ViewMount) = "b"
    /\ TextContent(last.surface, ViewMount) = "a"

\* C12: syncing a tree against an identical clone of itself performs no
\* live-surface mutation and leaves the old tree unchanged.
SyncCloneNoMutation ==
    (Synced /\ last.new = last.old) =>
        /\ last.writes = <<>>
        /\ dom = last.surface
        /\ tree = last.old

SyncCloneWitness ==
    /\ Synced
    /\ last.new = last.old
    /\ fault = "none"
    /\ tree.kind = "Node"
    /\ \E p \in Paths(tree) : Len(p) = 2 /\ NodeAt(tree, p).kind = "Text"

\* Same kinds, tags and child counts at every position.
RECURSIVE SameShape(_, _)
SameShape(old, new) ==
    /\ old.kind = new.kind
    /\ old.kind = "Node" =>
          /\ old.tag = new.tag
          /\ Len(old.children) = Len(new.children)
          /\ \A i \in 1..Len(old.children) :
                SameShape(old.children[i], new.children[i])

\* C13: when the old and new trees have the same shape and differ only in
\* the value of one Text leaf, sync makes exactly one text-content mutation
\* and every other live element, the siblings of the leaf included, is
\* still on the surface and as it was.
OneLeafOneMutation ==
    (/\ Synced
     /\ SameShape(last.old, last.new)
     /\ Cardinality(Differing(last.old, last.new)) = 1) =>
        /\ Len(last.writes) = 1
        /\ \A h \in DOMAIN last.surface :
              /\ h \in DOMAIN dom
              /\ h # last.writes[1][1] => dom[h] = last.surface[h]

\* C14: sync of a Node against a Node recurses into the children, pairwise
\* by position, if and only if both have the same number of children. When
\* the counts differ nothing is mutated: the live surface and the old
\* node are as before the call and no set_text_content call is made. When
\* they are equal, every Text child is synced against the child at the
\* same position (in the calls that return).
ChildCountGate ==
    (/\ Synced
     /\ last.old.kind = "Node"
     /\ last.new.kind = "Node") =>
        IF Len(last.old.children) # Len(last.new.children)
        THEN /\ last.writes = <<>>
             /\ dom = last.surface
             /\ tree = last.old
             /\ fault = "none"
        ELSE fault = "none" =>
             \A i \in 1..Len(last.old.children) :
                LET c1 == last.old.children[i]
                    c2 == last.new.children[i]
                IN (c1.kind = "Text" /\ c2.kind = "Text") =>
                      /\ tree.children[i] = Text(c2.value)
                      /\ c1.value # c2.value =>
                            \E k \in 1..Len(last.writes) :
                               last.writes[k]
                                  = <<get_live(last.old, last.surface)[1],
                                      c2.value>>

ChildCountWitness ==
    /\ Synced
    /\ last.old.kind = "Node"
    /\ last.new.kind = "Node"
    /\ Len(last.old.children) = 2
    /\ Len(last.new.children) = 1
    /\ last.old.children[1] = Text("a")
    /\ last.new.children[1] = Text("b")
    /\ tree = last.old

\* C15: sync of a Node against a Text, or of a Text against a Node, applies
\* no patch: the live surface and the old tree are unchanged and no error
\* is raised. Below the root, a mismatched pair leaves the old subtree as
\* it was.
ShapeMismatchNoPatch ==
    Synced =>
      /\ last.old.kind # last.new.kind =>
            /\ last.writes = <<>>
            /\ dom = last.surface
            /\ tree = last.old
            /\ fault = "none"
      /\ \A p \in Visited(last.old, last.new) :
            NodeAt(last.old, p).kind # NodeAt(last.new, p).kind =>
               NodeAt(tree, p) = NodeAt(last.old, p)

ShapeMismatchWitness ==
    /\ Synced
    /\ last.old.kind = "Node"
    /\ last.new.kind = "Text"
    /\ \E i \in 1..Len(last.old.children) :
          /\ last.old.children[i].kind = "Text"
          /\ last.old.children[i].value # last.new.value
    /\ fault = "none"

(* ------------------------ properties of the ids ------------------------ *)
\* C16: in every tree built through new_node and add_child, the id of each
\* Node differs from the id of every other Node of the tree.
UniqueIds ==
    \A p, q \in NodePaths(tree) :
        p # q => NodeAt(tree, p).id # NodeAt(tree, q).id

\* Every Node of the tree is at its position after the step, with its id.
IdsKept ==
    \A p \in NodePaths(tree) :
        /\ p \in NodePaths(tree')
        /\ NodeAt(tree', p).id = NodeAt(tree, p).id

\* C17: the id of every Node of the old tree is what new_node gave it,
\* after any sequence of sync calls and of add_attribute, add_style,
\* add_event_handler and add_child calls: no step changes a Node's id.
IdsStable == [][IdsKept]_vars

IdsStableWitness ==
    /\ Synced
    /\ last.writes # <<>>
    /\ fault = "none"
    /\ tree.kind = "Node"
    /\ tree.id = "_1"
    /\ last.new.kind = "Node"
    /\ last.new.id # tree.id
    /\ tree.attributes # <<>>
    /\ DOMAIN tree.events # {}

(* ---------------------- properties of the listeners -------------------- *)
\* The live element rendered for the Node at path p of tree t, where h is
\* the element rendered for t itself.
RECURSIVE ElementUnder(_, _, _, _)
ElementUnder(d, h, t, p) ==
    IF p = <<>> THEN h
    ELSE LET k == Cardinality({j \in 1..Head(p) : t.children[j].kind = "Node"})
             els == SelectSeq(d[h].children, LAMBDA c : c.kind = "el")
         IN ElementUnder(d, els[k].ref, t.children[Head(p)], Tail(p))

ElementOf(d, t, p) == ElementUnder(d, d[ViewMount].children[1].ref, t, p)

\* The number of listeners registered on element h for event `name`.
ListenersOn(d, h, name) ==
    Cardinality({j \in 1..Len(d[h].listeners) : d[h].listeners[j][1] = name})

\* Each Node's live element has one listener for each event name of the
\* Node's handler map and none for the other event names.
OneListenerEach ==
    \A p \in NodePaths(tree), name \in EventNames :
        ListenersOn(dom, ElementOf(dom, tree, p), name)
           = IF name \in DOMAIN NodeAt(tree, p).events THEN 1 ELSE 0

AllListeners(d) == [h \in DOMAIN d |-> d[h].listeners]

OneListenerStep ==
    /\ (pc = "mounted" /\ pc' = "attached") => OneListenerEach'
    /\ pc = "attached" =>
          /\ DOMAIN dom' = DOMAIN dom
          /\ AllListeners(dom') = AllListeners(dom)

\* C18: after the handlers are attached, the live element of every Node has
\* exactly one platform listener for each event name in the Node's handler
\* map and none for the others; and no later step (a handler registered
\* again for the same event name, a re-render with another application
\* function) registers another listener.
OneListenerPerPair == [][OneListenerStep]_vars

\* The listeners that run when event `name` is dispatched at element h and
\* that write to mailbox m, as <<element, index>> pairs.
Invoked(d, h, name, m) ==
    LET path == EventPath(d, h)
    IN UNION {{<<path[i], j>> :
                 j \in {j \in 1..Len(d[path[i]].listeners) :
                           /\ d[path[i]].listeners[j][1] = name
                           /\ d[path[i]].listeners[j][2].mailbox = m}}
              : i \in 1..Len(path)}

Repeat(x, n) == [i \in 1..n |-> x]

ListenerStep ==
    clicks' # clicks =>
       /\ \A m \in DOMAIN mail :
             mail'[m] = mail[m] \o
                Repeat(<<last'.name, last'.value>>,
                       Cardinality(Invoked(dom, last'.target, last'.name, m)))
       /\ DOMAIN mail' = DOMAIN mail
       /\ tree' = tree
       /\ dom' = dom
       /\ model' = model
       /\ run'.outs = <<>>
       /\ latest' = latest

\* C19: when a platform listener registered by add_event_handler is
\* invoked, its only effect is to append (eventName, rawEvent) to the
\* mailbox of the Node it was registered for: the tree, the surface and
\* the Model are as before and no message is produced; messages come out
\* of tick only.
ListenerOnlyAppends == [][ListenerStep]_vars

ListenerOnlyAppendsWitness ==
    /\ last.op = "fire"
    /\ \E m \in DOMAIN mail :
          /\ Len(mail[m]) = 2
          /\ mail[m][2] = <<last.name, last.value>>
          /\ mail[m][1] # mail[m][2]
          /\ RegisteredFun(tree, m, last.name) # None

\* The listeners on the surface, as <<element, index>> pairs.
Registered(d) == {x \in (DOMAIN d) \X (1..Len(KeyOrder) * Cardinality(DOMAIN d)) :
                     x[2] <= Len(d[x[1]].listeners)}

\* C20: after two registrations in sequence for the same (node, eventName)
\* the handler map has the one entry for that name, holding the function
\* registered last; a listener already on the surface keeps writing to the
\* Node's mailbox (an event fired afterwards is queued), and tick
\* dispatches the queued event through the function registered last.
SecondHandlerWins ==
    /\ \A p \in NodePaths(tree) :
          LET node == NodeAt(tree, p)
          IN /\ DOMAIN node.events = DOMAIN latest.fun[node.mailbox]
             /\ \A e \in DOMAIN node.events :
                   node.events[e].fun = latest.fun[node.mailbox][e]
    /\ last.op = "fire" =>
          \A x \in Registered(dom) :
             LET l == dom[x[1]].listeners[x[2]]
             IN (/\ l[1] = last.name
                 /\ \E i \in 1..Len(EventPath(dom, last.target)) :
                       EventPath(dom, last.target)[i] = x[1])
                => /\ mail[l[2].mailbox] # <<>>
                   /\ mail[l[2].mailbox][Len(mail[l[2].mailbox])]
                         = <<last.name, last.value>>
    /\ last.op = "tick" =>
          \A p \in NodePaths(tree) :
             LET node == NodeAt(tree, p)
                 q == last.pre[node.mailbox]
             IN (q # <<>> /\ Head(q)[1] \in DOMAIN node.events) =>
                   \E i \in 1..Len(last.out) :
                      last.out[i]
                         = eval(Handler(latest.fun[node.mailbox][Head(q)[1]],
                                        None),
                                Head(q)[2])

SecondHandlerWitness ==
    /\ last.op = "tick"
    /\ \E p \in NodePaths(tree) :
          LET node == NodeAt(tree, p)
          IN /\ "click" \in DOMAIN node.events
             /\ node.events["click"].fun = TagFun("g")
             /\ node.events["click"].js_ref.serial = 2
             /\ \E x \in Registered(dom) :
                   dom[x[1]].listeners[x[2]]
                      = <<"click", Callback(node.mailbox, "click", 1)>>
             /\ last.pre[node.mailbox] # <<>>
             /\ Head(last.pre[node.mailbox])[1] = "click"
             /\ \E i \in 1..Len(last.out) :
                   last.out[i] = <<"g", Head(last.pre[node.mailbox])[2]>>

(* ------------------- properties of attach and delete ------------------- *)
\* The closures in a Node's handler map, in the order of the map's keys.
OwnClosures(node) ==
    LET keys == SelectSeq(KeyOrder, LAMBDA k : k \in DOMAIN node.events)
    IN [i \in 1..Len(keys) |-> <<keys[i], node.events[keys[i]].js_ref>>]

\* The (event name, closure) pairs of the Nodes in sequence `nodes`.
RECURSIVE ClosuresOf(_)
ClosuresOf(nodes) ==
    IF nodes = <<>> THEN <<>>
    ELSE OwnClosures(Head(nodes)) \o ClosuresOf(Tail(nodes))

\* The registration or removal calls without the element they were made on.
Named(calls) == [i \in 1..Len(calls) |-> <<calls[i][2], calls[i][3]>>]

\* The Node of t whose closure js_ref is.
OwnerOf(t, js_ref) == NodeAt(t, PathOf(t, js_ref.mailbox))

\* C21: on a mounted tree attach_event_listeners registers the listeners of
\* every Node, those of a Node's descendants before the Node's own (depth-
\* first post-order), each (node, eventName) listener once, on the Node's
\* live element.
AttachPostOrder ==
    (last.op = "attach" /\ pc.mounted) =>
        /\ Named(last.calls) = ClosuresOf(PostOrderNodes(tree))
        /\ \A i \in 1..Len(last.calls) :
              /\ Some(last.calls[i][1])
                    = get_live(OwnerOf(tree, last.calls[i][3]), last.surface)
              /\ Cardinality({j \in 1..Len(dom[last.calls[i][1]].listeners) :
                                 dom[last.calls[i][1]].listeners[j]
                                    = <<last.calls[i][2], last.calls[i][3]>>})
                    = 1
        /\ \A x \in Registered(dom) :
              \E i \in 1..Len(last.calls) :
                 /\ last.calls[i][1] = x[1]
                 /\ dom[x[1]].listeners[x[2]]
                       = <<last.calls[i][2], last.calls[i][3]>>

AttachPostOrderWitness ==
    /\ last.op = "attach"
    /\ pc.mounted
    /\ tree.kind = "Node"
    /\ Len(tree.children) = 2
    /\ \A i \in 1..2 : tree.children[i].kind = "Node"
    /\ Len(last.calls) = 3
    /\ [i \in 1..3 |-> last.calls[i][3].mailbox]
          = <<tree.children[1].mailbox, tree.children[2].mailbox,
              tree.mailbox>>
    /\ ListenersOn(dom, get_live(tree, dom)[1], "click") = 1

\* The listeners on surface d are closures of t's handler maps as they are
\* now: t is the tree that was attached.
SameAsAttached(t, d) ==
    \A x \in Registered(d) :
       LET l == d[x[1]].listeners[x[2]]
       IN /\ l[2].mailbox \in Mailboxes(t)
          /\ l[1] \in DOMAIN OwnerOf(t, l[2]).events
          /\ OwnerOf(t, l[2]).events[l[1]].js_ref = l[2]

\* C22: delete_event_listeners is the inverse of attach_event_listeners:
\* after the listeners of a mounted tree were attached and then deleted, no
\* listener of the tree is on the live surface, which is as it was before
\* the attach; the listeners of a Node's descendants are removed before
\* the Node's own (depth-first post-order).
DeleteInvertsAttach ==
    (last.op = "delete" /\ pc.mounted /\ SameAsAttached(tree, last.surface)) =>
        /\ fault = "none"
        /\ Registered(dom) = {}
        /\ dom = set_inner_html(tree)
        /\ Named(last.calls) = ClosuresOf(PostOrderNodes(tree))
        /\ \A i \in 1..Len(last.calls) :
              Some(last.calls[i][1])
                 = get_live(OwnerOf(tree, last.calls[i][3]), last.surface)

DeleteInvertsAttachWitness ==
    /\ last.op = "delete"
    /\ pc.mounted
    /\ tree.kind = "Node"
    /\ Len(tree.children) = 2
    /\ \A i \in 1..2 : tree.children[i].kind = "Node"
    /\ Cardinality(Registered(last.surface)) = 3
    /\ [i \in 1..Len(last.calls) |-> last.calls[i][3].mailbox]
          = <<tree.children[1].mailbox, tree.children[2].mailbox,
              tree.mailbox>>
    /\ Registered(dom) = {}

(* --------------------- properties of the mutators ---------------------- *)
MutatorOps == {"add_attribute", "add_style", "add_event_handler", "add_child"}

\* Node `after` is Node `before` with one item pushed by mutator op, every
\* other field as it was.
Pushed(op, before, after) ==
    IF op = "add_attribute"
    THEN \E a \in Attributes :
            after = [before EXCEPT !.attributes = Append(@, a)]
    ELSE IF op = "add_style"
    THEN \E st \in Styles : after = [before EXCEPT !.styling = Append(@, st)]
    ELSE IF op = "add_child"
    THEN \E c \in IdentityChildren :
            after = [before EXCEPT !.children = Append(@, c)]
    ELSE /\ after = [before EXCEPT !.events = after.events]
         /\ \E e \in EventNames, fun \in AppFuns :
               /\ DOMAIN after.events = DOMAIN before.events \cup {e}
               /\ after.events[e].fun = fun
               /\ after.events[e].js_ref.mailbox = before.mailbox
               /\ \A k \in DOMAIN before.events \ {e} :
                     after.events[k] = before.events[k]

MutatorStep ==
    last'.op \in MutatorOps =>
       IF fault' = "panic"
       THEN /\ tree' = tree
            /\ NodeAt(tree, last'.path).kind = "Text"
       ELSE \E p \in NodePaths(tree) :
               /\ NodePaths(tree) \subseteq NodePaths(tree')
               /\ Pushed(last'.op, NodeAt(tree, p),
                         [NodeAt(tree', p) EXCEPT
                             !.children = IF last'.op = "add_child" THEN @
                                          ELSE NodeAt(tree, p).children])
               /\ tree' = ReplaceAt(tree, p, NodeAt(tree', p))

\* C23: a call of add_attribute, add_style, add_event_handler or add_child
\* on a Text panics and leaves the Text as it was; on a Node it pushes
\* exactly the given item (or sets the handler entry of the event name)
\* and changes no other field and no other value of the tree.
MutatorsPushOrPanic == [][MutatorStep]_vars

MutatorsWitness ==
    /\ fault = "panic"
    /\ last.op = "add_style"
    /\ NodeAt(tree, last.path) = Text("a")
    /\ tree.kind = "Node"
    /\ tree.attributes # <<>>

(* ------------------- properties of the missing element ----------------- *)
\* The operations that look up the live element of the root Node.
LiveOps == {"attach", "delete", "sync"}

\* C24: an attach_event_listeners, a delete_event_listeners or a sync of a
\* Node against a Node that runs when no live element has the Node's id
\* fails fatally; it never returns as if the Node had been handled.
MissingElementIsFatal ==
    (/\ last.op \in LiveOps
     /\ tree.kind = "Node"
     /\ get_live(tree, last.surface) = None) => fault = "panic"

(* ----------------------- properties of rendering ----------------------- *)
\* The Declarations of a style list, in list order.
DeclarationsOf(styles) ==
    LET IsDeclaration(style) == style.kind = "Style"
    IN SelectSeq(styles, IsDeclaration)

\* The "property: value;" entry of a Declaration, the property name with
\* hyphens for underscores.
Entry(d) == replace(d.property, "_", "-") \o ": " \o d.value \o ";"

\* The entries of the Declarations ds from the i-th on, one space between
\* two entries.
RECURSIVE Entries(_, _)
Entries(ds, i) ==
    IF i > Len(ds) THEN ""
    ELSE (IF i > 1 THEN " " ELSE "") \o Entry(ds[i]) \o Entries(ds, i + 1)

\* How many times text sub stands in text s.
Occurrences(s, sub) ==
    Cardinality({i \in 1..(Len(s) - Len(sub) + 1) :
                    SubSeq(s, i, i + Len(sub) - 1) = sub})

\* C25: the block render_decls returns for a style list is the selector and,
\* in braces, exactly one "property: value;" entry per Declaration of the
\* list, in list order, and nothing for its PseudoClass entries; render_decl
\* returns None for a PseudoClass and the entry for a Declaration.
RenderDeclsPerDeclaration ==
    last.op = "render_decls" =>
       /\ last.out = "#" \o tree.id \o " {"
                        \o Entries(DeclarationsOf(tree.styling), 1) \o "}"
       /\ Occurrences(last.out, ";") = Len(DeclarationsOf(tree.styling))
       /\ \A i \in 1..Len(tree.styling) :
             IF tree.styling[i].kind = "PseudoClass"
             THEN /\ last.decls[i] = None
                  /\ ~contains(last.out, tree.styling[i].name)
             ELSE last.decls[i] = Some(Entry(tree.styling[i]))

RenderDeclsWitness ==
    /\ last.op = "render_decls"
    /\ Len(tree.styling) = 3
    /\ tree.styling[1] = Declaration("font_size", "1em")
    /\ tree.styling[2].kind = "PseudoClass"
    /\ tree.styling[3] = Declaration("color", "red")
    /\ last.out = "#_12 {font-size: 1em; color: red;}"

\* The selectors a Node's rules are to have: #id, then #id:pseudo for each
\* PseudoClass entry of its styling, in list order.
RECURSIVE OwnSelectors(_, _)
OwnSelectors(node, i) ==
    IF i = 0 THEN <<"#" \o node.id>> \o OwnSelectors(node, 1)
    ELSE IF i > Len(node.styling) THEN <<>>
    ELSE (IF node.styling[i].kind = "PseudoClass"
          THEN <<"#" \o node.id \o ":" \o node.styling[i].name>>
          ELSE <<>>) \o OwnSelectors(node, i + 1)

\* The selectors of the rules of every Node of t: a Node's before those of
\* its children, the children in order.
RECURSIVE Selectors(_)
RECURSIVE SelectorsOfAll(_, _)
Selectors(t) ==
    IF t.kind = "Text" THEN <<>>
    ELSE OwnSelectors(t, 0) \o SelectorsOfAll(t.children, 1)

SelectorsOfAll(ts, i) ==
    IF i > Len(ts) THEN <<>>
    ELSE Selectors(ts[i]) \o SelectorsOfAll(ts, i + 1)

\* C26: render inserts into the Style Mount, for each Node, exactly one base
\* rule with selector #id and then exactly one rule with selector #id:pseudo
\* for each PseudoClass entry of the Node's styling, in list order, and no
\* other rule; render_pseudo_selector returns None for a Declaration and a
\* rule for a PseudoClass.
RenderInsertsRules ==
    /\ last.op = "render" =>
          /\ Len(sheet) = Len(Selectors(tree))
          /\ \A k \in 1..Len(sheet) :
                SelectorText(sheet[k]) = Selectors(tree)[k]
          /\ sheet[1] = render_decls("#" \o tree.id, tree.styling)
    /\ last.op = "render_decls" =>
          \A i \in 1..Len(tree.styling) :
             (last.pseudos[i] = None) <=> (tree.styling[i].kind = "Style")

RenderInsertsRulesWitness ==
    /\ last.op = "render"
    /\ sheet = <<"#_2 {color: red;}",
                 "#_2:focus {font-size: 2em;}",
                 "#_2:hover {color: blue;}">>
    /\ tree.styling[2] = Declaration("color", "red")

\* The position of the first sub in text s, or 0 if s has none.
IndexOf(s, sub) ==
    IF contains(s, sub)
    THEN CHOOSE i \in 1..(Len(s) - Len(sub) + 1) :
            /\ SubSeq(s, i, i + Len(sub) - 1) = sub
            /\ \A j \in 1..(i - 1) : SubSeq(s, j, j + Len(sub) - 1) # sub
    ELSE 0

\* The words of text s: its maximal pieces without a space.
RECURSIVE Words(_)
Words(s) ==
    IF Len(s) = 0 THEN <<>>
    ELSE IF IndexOf(s, " ") = 0 THEN <<s>>
    ELSE (IF IndexOf(s, " ") = 1 THEN <<>>
          ELSE <<SubSeq(s, 1, IndexOf(s, " ") - 1)>>)
            \o Words(SubSeq(s, IndexOf(s, " ") + 1, Len(s)))

\* The words of the start tag a markup text begins with: the tag name and
\* then the attributes as written.
StartTag(markup) == Words(SubSeq(markup, 2, IndexOf(markup, ">") - 1))

\* The name of an attribute as written: what stands before its "=".
NameOf(word) ==
    IF IndexOf(word, "=") = 0 THEN word
    ELSE SubSeq(word, 1, IndexOf(word, "=") - 1)

\* The explicit attributes of a Node whose key is not "id", in list order.
OtherAttributes(node) ==
    LET NotId(atr) == atr.key # "id"
    IN SelectSeq(node.attributes, NotId)

\* C27: the start tag of the markup rendered for a Node has exactly one
\* attribute named id, with the Node's own id as its value; the attributes
\* after it are the Node's explicit attributes whose key is not "id", each
\* once, in list order.
OneIdAttribute ==
    (last.op = "render") =>
       LET words == StartTag(last.markup)
       IN /\ words[1] = tree.tag
          /\ words[2] = "id=" \o tree.id
          /\ Cardinality({k \in 2..Len(words) : NameOf(words[k]) = "id"}) = 1
          /\ Len(words) = 2 + Len(OtherAttributes(tree))
          /\ \A k \in 3..Len(words) :
                NameOf(words[k]) = OtherAttributes(tree)[k - 2].key

OneIdAttributeWitness ==
    /\ last.op = "render"
    /\ tree.attributes = <<Pair("class", "x"), Pair("id", "x"),
                           Toggle("hidden", TRUE)>>
    /\ last.markup = "<div id=_1 class=\"x\" hidden></div>"

\* The explicit attributes of a Node that are to be written: those whose
\* key is not "id", without the Toggles whose boolean is false.
Present(node) ==
    LET Shown(atr) == IF is_pair(atr) THEN TRUE ELSE atr.value
    IN SelectSeq(OtherAttributes(node), Shown)

\* C28: in the markup rendered for a Node a Pair is written as key="value",
\* a Toggle whose boolean is true as its bare key, and a Toggle whose boolean
\* is false is not written at all.
ToggleWrittenIffTrue ==
    (last.op = "render") =>
       LET words == StartTag(last.markup)
       IN /\ Len(words) = 2 + Len(Present(tree))
          /\ \A k \in 1..Len(Present(tree)) :
                words[k + 2] =
                   IF is_pair(Present(tree)[k])
                   THEN Present(tree)[k].key \o "=\""
                           \o Present(tree)[k].value \o "\""
                   ELSE Present(tree)[k].key

\* Whether a rule is one of the rules of the Node: its selector is #id or
\* #id:pseudo for the Node's id.
Owns(node, rule) ==
    \/ SelectorText(rule) = "#" \o node.id
    \/ /\ Len(SelectorText(rule)) >= Len(node.id) + 2
       /\ SubSeq(SelectorText(rule), 1, Len(node.id) + 2)
             = "#" \o node.id \o ":"

\* C29: after render every rule in the Style Mount is a rule of exactly one
\* Node of the tree, and delete(nodeId) removes exactly the rules of that
\* Node: the rules of every other Node stay, in their order.
RulesScopedToOneNode ==
    /\ last.op = "render" =>
          \A k \in 1..Len(sheet) :
             Cardinality({p \in NodePaths(tree) :
                             Owns(NodeAt(tree, p), sheet[k])}) = 1
    /\ last.op = "style_delete" =>
          LET Others(rule) ==
                 \E p \in NodePaths(tree) \ {last.path} :
                    Owns(NodeAt(tree, p), rule)
          IN sheet = SelectSeq(last.rules, Others)

(* --------------------- properties of the first mount ------------------- *)
\* The rules the Style Mount is to hold for a core.rs Node: the base rule of
\* its class and the rule of each PseudoClass entry of its styling.
RulesOf(node) ==
    {render_decls("._" \o ToString(calculate_hash(node.styling)),
                  node.styling)}
       \cup {core_render_pseudo_selector(node.styling[i],
                                         calculate_hash(node.styling))[1] :
                i \in {j \in 1..Len(node.styling) :
                          node.styling[j].kind = "PseudoClass"}}

\* C30: after Reactor::new the markup on the surface is the serialization
\* of the whole initial tree, every Node of the tree has its live element at
\* its place under the view mount, and the Style Mount holds the style rules
\* of every Node of the tree.
FirstMountComplete ==
    (pc = "initialized" /\ fault = "none") =>
       /\ last.markup = stringify_html(tree)
       /\ \A p \in NodePaths(tree) :
             dom[ElementOf(dom, tree, p)].tag = NodeAt(tree, p).tag
       /\ \A p \in NodePaths(tree) :
             \A rule \in RulesOf(NodeAt(tree, p)) :
                \E k \in 1..Len(sheet) : contains(sheet[k], rule)

(* ------------------ properties of the queued entries ------------------- *)
\* C31: no mailbox entry is lost: every entry a listener has inserted and
\* tick has not removed yet is queued in the mailbox of a Node of the active
\* tree, where the tick of a later frame removes it.
NoEntryOutOfReach ==
    \A m \in DOMAIN mail : mail[m] # <<>> => m \in Mailboxes(tree)

\* The positions of the Text leaves of a tree.
TextPaths(t) == Paths(t) \ NodePaths(t)

\* C32: when old and new have the same shape, after sync(old, new) every
\* Text leaf of old holds the value of the leaf at the same position in new,
\* and every Node of old has the id, the tag and the mailbox it had before
\* the call.
SyncMatchesContent ==
    (Synced /\ SameShape(last.old, last.new)) =>
       /\ Paths(tree) = Paths(last.old)
       /\ \A p \in TextPaths(last.old) :
             NodeAt(tree, p) = Text(NodeAt(last.new, p).value)
       /\ \A p \in NodePaths(last.old) :
             /\ NodeAt(tree, p).kind = "Node"
             /\ NodeAt(tree, p).id = NodeAt(last.old, p).id
             /\ NodeAt(tree, p).tag = NodeAt(last.old, p).tag
             /\ NodeAt(tree, p).mailbox = NodeAt(last.old, p).mailbox

\* The text that stands directly under live element h: its text nodes, in
\* order.
RECURSIVE OwnText(_, _)
OwnText(items, i) ==
    IF i > Len(items) THEN ""
    ELSE (IF items[i].kind = "text" THEN items[i].data ELSE "")
            \o OwnText(items, i + 1)

\* The values of the Text children of a Node, in order.
RECURSIVE TextChildren(_, _)
TextChildren(node, i) ==
    IF i > Len(node.children) THEN ""
    ELSE (IF node.children[i].kind = "Text" THEN node.children[i].value
          ELSE "") \o TextChildren(node, i + 1)

\* C33: when the active tree is synced against a view of the same shape,
\* afterwards every Node of the tree has its live element and the text
\* under that element is the concatenation of the Text children the view
\* gives the Node, also for a Node with more than one child.
SurfaceShowsView ==
    (Synced /\ SameShape(last.old, last.new)) =>
       \A p \in NodePaths(last.old) :
          /\ get_live(NodeAt(last.old, p), dom) # None
          /\ OwnText(dom[get_live(NodeAt(last.old, p), dom)[1]].children, 1)
                = TextChildren(NodeAt(last.new, p), 1)

\* The mailboxes the listeners registered on surface d insert into.
ListenerMailboxes(d) ==
    UNION {{d[h].listeners[j][2].mailbox : j \in 1..Len(d[h].listeners)} :
            h \in Attached(d)}

\* C34: a Render loses no queued entry. Once the active tree has been
\* replaced by the candidate, the mailbox of each Node of the active tree
\* holds the entries that were queued in the mailbox of the Node at the same
\* position of the replaced tree, and every listener on the live surface
\* inserts into the mailbox of a Node of the active tree, where the next
\* tick drains it.
QueuedSurvivesRender ==
    (last.op = "render") =>
       /\ pc = "rendered" =>
             \A p \in NodePaths(last.old) :
                /\ p \in NodePaths(tree)
                /\ mail[NodeAt(tree, p).mailbox]
                      = last.queued[NodeAt(last.old, p).mailbox]
       /\ ListenerMailboxes(dom) \subseteq Mailboxes(tree)

(* ----------------------- what a frame leaves alone ---------------------- *)
\* A step that is a call of tick.
TickStep ==
    /\ last'.op = "tick"
    /\ last'.pre = mail
    /\ run'.outs = Append(run.outs, last'.out)

SyncOnlyTextValues ==
    Synced =>
       /\ Paths(tree) = Paths(last.old)
       /\ \A p \in Paths(last.old) :
             /\ NodeAt(tree, p).kind = NodeAt(last.old, p).kind
             /\ NodeAt(last.old, p).kind = "Node" =>
                   /\ NodeAt(tree, p).tag = NodeAt(last.old, p).tag
                   /\ NodeAt(tree, p).attributes
                         = NodeAt(last.old, p).attributes
                   /\ NodeAt(tree, p).styling = NodeAt(last.old, p).styling
                   /\ NodeAt(tree, p).events = NodeAt(last.old, p).events
                   /\ NodeAt(tree, p).mailbox = NodeAt(last.old, p).mailbox
                   /\ Len(NodeAt(tree, p).children)
                         = Len(NodeAt(last.old, p).children)

SyncOnlyTextValuesWitness ==
    /\ Synced
    /\ tree # last.old
    /\ last.writes # <<>>
    /\ tree.kind = "Node"
    /\ tree.attributes # <<>> \/ tree.styling # <<>>
    /\ DOMAIN tree.events # {}
    /\ last.new.kind = "Node"
    /\ last.new.attributes = <<>>
    /\ DOMAIN last.new.events = {}

\* C37: sync is idempotent. A sync(old, new) called right after a
\* sync(old, new) with the same new writes nothing to the live surface and
\* leaves the old tree and the surface as the first call left them.
SyncIdempotent ==
    (Synced /\ last.repeats # None) =>
       /\ last.writes = <<>>
       /\ tree = last.old
       /\ dom = last.surface

SyncIdempotentWitness ==
    /\ Synced
    /\ last.repeats # None
    /\ last.repeats[1] # <<>>
    /\ fault = "none"
    /\ last.new # tree

====
